---- MODULE Spec2Model ----
(***************************************************************************)
(* Moderation workflow of the publishing bot (src/bot.py).                 *)
(*                                                                         *)
(* Handlers are coroutines run as concurrent tasks by the dispatcher; they *)
(* interleave at the awaits that really suspend (database and Bot API      *)
(* calls, asyncio.sleep).  Calls on the in-memory FSM storage do not       *)
(* suspend, so a run of them is one step.  Every handler is cut into steps *)
(* at its suspending awaits; task[m] is the position of the handler that   *)
(* moderator m has in flight.                                              *)
(*                                                                         *)
(* The second part is the submission of posts in an author's private chat: *)
(* the subscription middleware, the menus and the PostState flow, with the *)
(* admin commands that ban users and edit the blacklist and the required   *)
(* subscriptions.                                                          *)
(***************************************************************************)
EXTENDS Naturals, Integers, Sequences, FiniteSets, TLC

\* ---------------------------------------------------------------- bounds
MaxPosts == 2
MaxCalls == 3
Moderators == {1, 2}
Authors == {7}
PostTexts == {"t"}
Photos == {"NULL"}
Reasons == {"r"}
TickSteps == {70}
MaxIntake == 2
MaxQuota == 6
MaxMenus == 2
MaxSaves == 2
Channels == {"c"}
Bots == {"b"}
ADMINS == {9}

\* ------------------------------------------------------ program constants
SleepSeconds == 60
GraceSeconds == 70
DailyLimit == 5
MinTextLen == 5
MaxTextLen == 100
NoId == 0
NoText == "NULL"

AgeCap == GraceSeconds + 1

VARIABLES
    posts,      \* table posts: sequence of rows, the id is the index
    modMsg,     \* per post: the review message in the moderators' topic
    adminMsg,   \* per post: the view of the message in the admins' topic
    delivered,  \* per post: number of deliveries to MAIN_CHANNEL_ID
    notices,    \* per post: decision notices sent to the author
    fsm,        \* per moderator: FSM state and data (RejectState)
    timers,     \* the reject_timeout_handler tasks alive, oldest first
    prompted,   \* the posts for which a reason prompt (with its cancel button) was sent
    task,       \* per moderator: the handler in flight and its position
    commits,    \* number of committed UPDATEs of posts (the clock of moderation_time)
    calls,      \* number of moderator updates dispatched so far
    reply,      \* what the step just taken answered to its caller, if it ended a handler
    ufsm,       \* per author: FSM state and data (PostState)
    users,      \* per author: no row in users, or the value of is_subscribed
    bans,       \* table bans: the banned user ids
    blacklist,  \* table publication_blacklist: the keywords
    subs,       \* REQUIRED_SUBSCRIPTIONS, the list in memory
    required_subscriptions, \* table required_subscriptions: the rows ORDER BY id
    saving,     \* the save_subscriptions_to_db calls in flight, oldest first
    member,     \* per author: the channels Telegram reports the author a member of
    views       \* per author: the bot's messages with buttons in the private chat, by view

vars == <<posts, modMsg, adminMsg, delivered, notices, fsm, timers, prompted, task, commits, calls, reply,
          ufsm, users, bans, blacklist, subs, required_subscriptions, saving, member, views>>

postVars == <<posts, modMsg, adminMsg, delivered, notices>>
modVars == <<fsm, timers, prompted, task, commits, calls>>
intakeVars == <<ufsm, users, bans, blacklist, subs, required_subscriptions, saving,
                member, views>>

PostIds == 1..Len(posts)

\* ------------------------------------------------------------- keyboards
moderation_keyboard(post_id) ==
    { [text |-> "Publish", data |-> <<"pub_", post_id>>],
      [text |-> "Reject", data |-> <<"rej_", post_id>>] }

disabled_moderation_keyboard(post_id, action) ==
    IF action = "published"
    THEN { [text |-> "Published", data |-> <<"disabled", 0>>] }
    ELSE { [text |-> "Rejected", data |-> <<"disabled", 0>>] }

ModerationText(post_id, text) == <<"New post on moderation", post_id, text>>

NoMsg == [text |-> <<>>, kb |-> {}]

\* The review message that send_to_moderation posts for a new post.
send_to_moderation(post_id, text) ==
    [text |-> ModerationText(post_id, text), kb |-> moderation_keyboard(post_id)]

\* ------------------------------------------------------------ FSM storage
NoState == [state |-> "NULL", post_id |-> NoId, message_id |-> NoId,
            original_text |-> <<>>, photo |-> NoText, age |-> 0]

\* ------------------------------------------------------------------ tasks
Idle == [op |-> "idle", pc |-> "idle", pid |-> NoId, reason |-> NoText,
         data |-> NoState, seen |-> ""]

NoReply == [mod |-> NoId, op |-> "none", pid |-> NoId, ans |-> "none"]

Reply(m, op, pid, ans) == [mod |-> m, op |-> op, pid |-> pid, ans |-> ans]

IsIdle(m) == task[m].op = "idle"

\* --------------------------------------------------------------- database
get_post_status(post_id) ==
    IF post_id \in PostIds THEN posts[post_id].status ELSE ""

\* A handler in flight: its name, its position, its locals (the post id, the
\* message text, the FSM data it read), and the status the post had when the
\* update was dispatched.
Running(op, pc, pid, reason, data) ==
    [op |-> op, pc |-> pc, pid |-> pid, reason |-> reason, data |-> data,
     seen |-> get_post_status(pid)]

\* PostState: the state and the photo kept in the data.
NoPostState == [state |-> "NULL", photo |-> NoText]

\* The views a message of the bot in a private chat can be in.
Views == {"main", "type", "prompt", "menu_btn", "offer_btn", "subscribe"}

NewPost_Published(user_id, text, photo) ==
    [user_id |-> user_id, text |-> text, photo |-> photo, status |-> "published",
     moderator_id |-> NoId, moderation_time |-> 0, reject_reason |-> NoText]

NewPost(user_id, text, photo) ==
    [user_id |-> user_id, text |-> text, photo |-> photo, status |-> "moderation",
     moderator_id |-> NoId, moderation_time |-> 0, reject_reason |-> NoText]

Init ==
    /\ posts = <<>>
    /\ modMsg = <<>>
    /\ adminMsg = <<>>
    /\ delivered = <<>>
    /\ notices = <<>>
    /\ fsm = [m \in Moderators |-> NoState]
    /\ timers = <<>>
    /\ prompted = {}
    /\ task = [m \in Moderators |-> Idle]
    /\ commits = 0
    /\ calls = 0
    /\ reply = NoReply
    /\ ufsm = [u \in Authors |-> NoPostState]
    /\ users = [u \in Authors |-> "none"]
    /\ bans = {}
    /\ blacklist = {}
    /\ subs = <<>>
    /\ required_subscriptions = <<>>
    /\ saving = <<>>
    /\ member = [u \in Authors |-> {}]
    /\ views = [u \in Authors |-> [v \in Views |-> 0]]

Submit_StopsAtModeratorFailure(user_id, text, photo, modOk, adminOk) ==
    /\ Len(posts) < MaxPosts
    /\ LET id == Len(posts) + 1 IN
        /\ posts' = Append(posts, NewPost(user_id, text, photo))
        /\ modMsg' = Append(modMsg,
                IF modOk THEN send_to_moderation(id, text) ELSE NoMsg)
        /\ adminMsg' = Append(adminMsg, IF modOk /\ adminOk THEN "new" ELSE "none")
    /\ delivered' = Append(delivered, 0)
    /\ notices' = Append(notices, [published |-> 0, rejected |-> 0])
    /\ reply' = Reply(user_id, "get_text_only", Len(posts) + 1, "sent")
    /\ UNCHANGED <<fsm, timers, prompted, task, commits, calls>>
    /\ UNCHANGED intakeVars

\* ------------------------------------------------------------ submission
\* get_text_only with a text that passes the checks: the row is inserted with
\* status 'moderation', the author is told that the post was sent, then
\* send_to_moderation and send_to_admins render it; a failed render is only
\* logged.
Submit(user_id, text, photo, modOk, adminOk) ==
    /\ Len(posts) < MaxPosts
    /\ LET id == Len(posts) + 1 IN
        /\ posts' = Append(posts, NewPost(user_id, text, photo))
        /\ modMsg' = Append(modMsg,
                IF modOk THEN send_to_moderation(id, text) ELSE NoMsg)
        /\ adminMsg' = Append(adminMsg, IF adminOk THEN "new" ELSE "none")
    /\ delivered' = Append(delivered, 0)
    /\ notices' = Append(notices, [published |-> 0, rejected |-> 0])
    /\ reply' = Reply(user_id, "get_text_only", Len(posts) + 1, "sent")
    /\ UNCHANGED <<fsm, timers, prompted, task, commits, calls>>
    /\ UNCHANGED intakeVars

\* --------------------------------------------------------------- helpers
\* A moderator can press a button of post pid once its review message exists.
Reviewable(pid) == pid \in PostIds /\ modMsg[pid] # NoMsg

PublishRefuses_OnlyRejected(status) == status = "rejected"

\* The status test of publish (line 1757).
PublishRefuses(status) == status \in {"published", "rejected"}

RejectRefuses_OnlyPublished(status) == status = "published"

\* The status test of reject (lines 1889-1894).
RejectRefuses(status) == status = "published" \/ status = "rejected"

\* An UPDATE that writes the status alone.
UpdatePublished_StatusOnly(row, moderator, time) ==
    [row EXCEPT !.status = "published"]

\* The UPDATE of publish (lines 1784-1787).
UpdatePublished(row, moderator, time) ==
    [row EXCEPT !.status = "published", !.moderator_id = moderator,
                !.moderation_time = time]

\* The UPDATE of reject_reason (lines 2002-2005).
UpdateRejected(row, moderator, time, reason) ==
    [row EXCEPT !.status = "rejected", !.moderator_id = moderator,
                !.moderation_time = time, !.reject_reason = reason]

\* update_admin_message_status: no stored admin message, or a failed edit,
\* leaves the admin view as it is.
update_admin_message_status(post_id, status, ok) ==
    IF adminMsg[post_id] = "none" \/ ~ok
    THEN adminMsg
    ELSE [adminMsg EXCEPT ![post_id] = status]

reset_reject_state_Disabled(post_id, message_id, text, ok) ==
    IF ok
    THEN [modMsg EXCEPT ![message_id] =
            [text |-> text, kb |-> disabled_moderation_keyboard(post_id, "rejected")]]
    ELSE modMsg

\* reset_reject_state: edits the review message back to the original text
\* with the active keyboard; a failed edit is logged and changes nothing.
reset_reject_state(post_id, message_id, text, ok) ==
    IF ok
    THEN [modMsg EXCEPT ![message_id] = [text |-> text, kb |-> moderation_keyboard(post_id)]]
    ELSE modMsg

\* The timestamp test of reject_reason (line 1979).
IsExpired(age) == age > GraceSeconds

TimerMatches_OtherState(data, post_id) ==
    data.post_id = post_id /\ data.state # "wait_reason"

\* The test without the comparison of the post ids (line 1866).
TimerMatches_AnyPost(data, post_id) ==
    data.state = "wait_reason"

\* The test of reject_timeout_handler (lines 1866-1868).
TimerMatches(data, post_id) ==
    data.post_id = post_id /\ data.state = "wait_reason"

\* A handler ends: the moderator's task is idle again and the caller is answered.
Finish(m, ans) ==
    /\ task' = [task EXCEPT ![m] = Idle]
    /\ reply' = Reply(m, task[m].op, task[m].pid, ans)

\* A handler ends in its first step.
Refuse(m, op, pid, ans) ==
    /\ reply' = Reply(m, op, pid, ans)
    /\ UNCHANGED task

\* ---------------------------------------------------------------- publish
\* lines 1746-1759: chat validation, then the status read.
PublishCheck(m, pid, chatOk) ==
    /\ IsIdle(m)
    /\ Reviewable(pid)
    /\ calls < MaxCalls
    /\ calls' = calls + 1
    /\ IF ~chatOk THEN Refuse(m, "publish", pid, "wrong_chat")
       ELSE IF PublishRefuses(get_post_status(pid)) THEN Refuse(m, "publish", pid, "already_decided")
       ELSE /\ task' = [task EXCEPT ![m] = Running("publish", "deliver", pid, NoText, NoState)]
            /\ reply' = NoReply
    /\ UNCHANGED <<posts, modMsg, adminMsg, delivered, notices, fsm, timers, prompted, commits>>
    /\ UNCHANGED intakeVars

PublishDeliver_FailureIgnored(m, ok) ==
    /\ task[m].op = "publish" /\ task[m].pc = "deliver"
    /\ task[m].pid \in PostIds
    /\ delivered' = IF ok THEN [delivered EXCEPT ![task[m].pid] = @ + 1] ELSE delivered
    /\ task' = [task EXCEPT ![m].pc = "commit"]
    /\ reply' = NoReply
    /\ UNCHANGED <<posts, modMsg, adminMsg, notices, fsm, timers, prompted, commits, calls>>
    /\ UNCHANGED intakeVars

\* lines 1761-1781: the row is read and sent to the main channel.
PublishDeliver(m, ok) ==
    /\ task[m].op = "publish" /\ task[m].pc = "deliver"
    /\ LET pid == task[m].pid IN
        IF pid \notin PostIds
        THEN /\ Finish(m, "not_found")
             /\ UNCHANGED delivered
        ELSE IF ok
        THEN /\ delivered' = [delivered EXCEPT ![pid] = @ + 1]
             /\ task' = [task EXCEPT ![m].pc = "commit"]
             /\ reply' = NoReply
        ELSE /\ Finish(m, "delivery_failed")
             /\ UNCHANGED delivered
    /\ UNCHANGED <<posts, modMsg, adminMsg, notices, fsm, timers, prompted, commits, calls>>
    /\ UNCHANGED intakeVars

\* lines 1783-1788: the status is written.
PublishCommit(m) ==
    /\ task[m].op = "publish" /\ task[m].pc = "commit"
    /\ LET pid == task[m].pid IN
        posts' = [posts EXCEPT ![pid] = UpdatePublished(@, m, commits + 1)]
    /\ commits' = commits + 1
    /\ task' = [task EXCEPT ![m].pc = "finish"]
    /\ reply' = NoReply
    /\ UNCHANGED <<modMsg, adminMsg, delivered, notices, fsm, timers, prompted, calls>>
    /\ UNCHANGED intakeVars

PublishFinish_RevertsOnFailure(m, adminOk, noticeOk) ==
    /\ task[m].op = "publish" /\ task[m].pc = "finish"
    /\ LET pid == task[m].pid IN
        /\ adminMsg' = update_admin_message_status(pid, "published", adminOk)
        /\ notices' = IF noticeOk
                      THEN [notices EXCEPT ![pid].published = @ + 1]
                      ELSE notices
        /\ posts' = IF noticeOk THEN posts
                    ELSE [posts EXCEPT ![pid].status = "moderation", ![pid].moderator_id = NoId]
    /\ Finish(m, "published")
    /\ UNCHANGED <<modMsg, delivered, fsm, timers, prompted, commits, calls>>
    /\ UNCHANGED intakeVars

\* lines 1790-1810: admin view, author notice, log and confirmation.
PublishFinish(m, adminOk, noticeOk) ==
    /\ task[m].op = "publish" /\ task[m].pc = "finish"
    /\ LET pid == task[m].pid IN
        /\ adminMsg' = update_admin_message_status(pid, "published", adminOk)
        /\ notices' = IF noticeOk
                      THEN [notices EXCEPT ![pid].published = @ + 1]
                      ELSE notices
    /\ Finish(m, "published")
    /\ UNCHANGED <<posts, modMsg, delivered, fsm, timers, prompted, commits, calls>>
    /\ UNCHANGED intakeVars

\* ----------------------------------------------------------------- reject
\* lines 1878-1894: chat validation, then the status read.
RejectCheck(m, pid, chatOk) ==
    /\ IsIdle(m)
    /\ Reviewable(pid)
    /\ calls < MaxCalls
    /\ calls' = calls + 1
    /\ IF ~chatOk THEN Refuse(m, "reject", pid, "wrong_chat")
       ELSE IF RejectRefuses(get_post_status(pid)) THEN Refuse(m, "reject", pid, "already_decided")
       ELSE /\ task' = [task EXCEPT ![m] = Running("reject", "set_state", pid, NoText, NoState)]
            /\ reply' = NoReply
    /\ UNCHANGED <<posts, modMsg, adminMsg, delivered, notices, fsm, timers, prompted, commits>>
    /\ UNCHANGED intakeVars

\* lines 1896-1921: the row is read, the FSM state and its data are set.  The
\* handler's timer is entered here as "starting": it sleeps from create_task on
\* (RejectPrompt), and its age is counted from the timestamp of the data.
RejectSetState(m) ==
    /\ task[m].op = "reject" /\ task[m].pc = "set_state"
    /\ LET pid == task[m].pid IN
        IF pid \notin PostIds
        THEN /\ Finish(m, "not_found")
             /\ UNCHANGED <<fsm, timers>>
        ELSE LET data == [state |-> "wait_reason", post_id |-> pid, message_id |-> pid,
                          original_text |-> ModerationText(pid, posts[pid].text),
                          photo |-> posts[pid].photo, age |-> 0]
             IN /\ fsm' = [fsm EXCEPT ![m] = data]
                /\ timers' = Append(timers,
                        [mod |-> m, post_id |-> pid, message_id |-> pid,
                         original_text |-> data.original_text, pc |-> "starting", age |-> 0])
                /\ task' = [task EXCEPT ![m].pc = "prompt", ![m].data = data]
                /\ reply' = NoReply
    /\ UNCHANGED <<posts, modMsg, adminMsg, delivered, notices, prompted, commits, calls>>
    /\ UNCHANGED intakeVars

Remove(seq, i) == SubSeq(seq, 1, i - 1) \o SubSeq(seq, i + 1, Len(seq))

\* The timer entered by the reject handler that moderator m has in flight.
OwnTimer(m) ==
    CHOOSE i \in 1..Len(timers) : timers[i].mod = m /\ timers[i].pc = "starting"

\* lines 1923-1937: the prompt with the cancel button is sent, the callback is
\* answered and the timer task is created; an exception of either call ends
\* the handler before create_task.
RejectPrompt(m, outcome) ==
    /\ task[m].op = "reject" /\ task[m].pc = "prompt"
    /\ timers' = IF outcome = "ok"
                 THEN [timers EXCEPT ![OwnTimer(m)].pc = "sleep"]
                 ELSE Remove(timers, OwnTimer(m))
    /\ prompted' = IF outcome = "send_failed" THEN prompted
                   ELSE prompted \cup {task[m].pid}
    /\ Finish(m, IF outcome = "ok" THEN "reason_requested" ELSE "error")
    /\ UNCHANGED <<posts, modMsg, adminMsg, delivered, notices, fsm, commits, calls>>
    /\ UNCHANGED intakeVars

\* ------------------------------------------------- reject_timeout_handler
\* lines 1860-1870: after the sleep the FSM data and state are compared and
\* the state is cleared.
TimerFire(i) ==
    /\ i \in 1..Len(timers)
    /\ timers[i].pc = "sleep"
    /\ timers[i].age >= SleepSeconds
    /\ LET c == timers[i] IN
        IF TimerMatches(fsm[c.mod], c.post_id)
        THEN /\ fsm' = [fsm EXCEPT ![c.mod] = NoState]
             /\ timers' = [timers EXCEPT ![i].pc = "edit"]
        ELSE /\ timers' = Remove(timers, i)
             /\ UNCHANGED fsm
    /\ reply' = NoReply
    /\ UNCHANGED <<posts, modMsg, adminMsg, delivered, notices, prompted, task, commits, calls>>
    /\ UNCHANGED intakeVars

\* A rollback that also puts the row back to pending.
TimerEdit_ResetsRow(i, ok) ==
    /\ i \in 1..Len(timers)
    /\ timers[i].pc = "edit"
    /\ LET c == timers[i] IN
        /\ modMsg' = reset_reject_state(c.post_id, c.message_id, c.original_text, ok)
        /\ posts' = [posts EXCEPT ![c.post_id] =
                        [@ EXCEPT !.status = "moderation", !.moderator_id = NoId,
                                  !.moderation_time = 0, !.reject_reason = NoText]]
        /\ reply' = Reply(c.mod, "reject_timeout_handler", c.post_id, "none")
    /\ timers' = Remove(timers, i)
    /\ UNCHANGED <<adminMsg, delivered, notices, fsm, prompted, task, commits, calls>>
    /\ UNCHANGED intakeVars

\* line 1873: the rollback render; the task ends and nobody is told.
TimerEdit(i, ok) ==
    /\ i \in 1..Len(timers)
    /\ timers[i].pc = "edit"
    /\ LET c == timers[i] IN
        /\ modMsg' = reset_reject_state(c.post_id, c.message_id, c.original_text, ok)
        /\ reply' = Reply(c.mod, "reject_timeout_handler", c.post_id, "none")
    /\ timers' = Remove(timers, i)
    /\ UNCHANGED <<posts, adminMsg, delivered, notices, fsm, prompted, task, commits, calls>>
    /\ UNCHANGED intakeVars

\* ------------------------------------------------------------- cancel_rej
\* The cancel button of post pid exists once a prompt for pid was sent.
CancelButton(pid) == pid \in prompted

\* cancel_rej without the comparison of line 1950.
CancelRej_AnyPost(m, pid) ==
    /\ IsIdle(m)
    /\ CancelButton(pid)
    /\ calls < MaxCalls
    /\ calls' = calls + 1
    /\ LET data == fsm[m] IN
        /\ fsm' = [fsm EXCEPT ![m] = NoState]
        /\ task' = [task EXCEPT ![m] = Running("cancel_rej", "edit", pid, NoText, data)]
        /\ reply' = NoReply
    /\ UNCHANGED <<posts, modMsg, adminMsg, delivered, notices, timers, prompted, commits>>
    /\ UNCHANGED intakeVars

\* lines 1942-1958: the FSM data is compared with the button's post id and
\* the state is cleared.
CancelRej(m, pid) ==
    /\ IsIdle(m)
    /\ CancelButton(pid)
    /\ calls < MaxCalls
    /\ calls' = calls + 1
    /\ LET data == fsm[m] IN
        IF data.post_id # pid
        THEN /\ Refuse(m, "cancel_rej", pid, "mismatch")
             /\ UNCHANGED fsm
        ELSE /\ fsm' = [fsm EXCEPT ![m] = NoState]
             /\ task' = [task EXCEPT ![m] = Running("cancel_rej", "edit", pid, NoText, data)]
             /\ reply' = NoReply
    /\ UNCHANGED <<posts, modMsg, adminMsg, delivered, notices, timers, prompted, commits>>
    /\ UNCHANGED intakeVars

\* lines 1960-1963: the rollback render and the answer.
CancelEdit(m, ok) ==
    /\ task[m].op = "cancel_rej" /\ task[m].pc = "edit"
    /\ LET d == task[m].data IN
        modMsg' = reset_reject_state(task[m].pid, d.message_id, d.original_text, ok)
    /\ Finish(m, "cancelled")
    /\ UNCHANGED <<posts, adminMsg, delivered, notices, fsm, timers, prompted, commits, calls>>
    /\ UNCHANGED intakeVars

\* ---------------------------------------------------------- reject_reason
ReasonReceive_KeepsState(m, reason) ==
    /\ IsIdle(m)
    /\ fsm[m].state = "wait_reason"
    /\ calls < MaxCalls
    /\ calls' = calls + 1
    /\ task' = [task EXCEPT ![m] =
            Running("reject_reason",
                    IF fsm[m].age > GraceSeconds THEN "expired" ELSE "commit",
                    fsm[m].post_id, reason, fsm[m])]
    /\ reply' = NoReply
    /\ UNCHANGED <<posts, modMsg, adminMsg, delivered, notices, fsm, timers, prompted, commits>>
    /\ UNCHANGED intakeVars

\* lines 1965-1989: routed by the state filter; the data is read, the age of
\* the timestamp is compared with 70 s and the state is cleared.
ReasonReceive(m, reason) ==
    /\ IsIdle(m)
    /\ fsm[m].state = "wait_reason"
    /\ calls < MaxCalls
    /\ calls' = calls + 1
    /\ LET data == fsm[m] IN
        IF data.post_id = NoId
        THEN /\ Refuse(m, "reject_reason", NoId, "no_post_id")
             /\ UNCHANGED fsm
        ELSE /\ fsm' = [fsm EXCEPT ![m] = NoState]
             /\ task' = [task EXCEPT ![m] =
                    Running("reject_reason",
                            IF IsExpired(data.age) THEN "expired" ELSE "commit",
                            data.post_id, reason, data)]
             /\ reply' = NoReply
    /\ UNCHANGED <<posts, modMsg, adminMsg, delivered, notices, timers, prompted, commits>>
    /\ UNCHANGED intakeVars

\* line 1965: reject_reason is registered behind the filter
\* RejectState.wait_reason and no handler takes plain text without a state: a
\* message of a moderator who is not awaiting a reason runs nothing and is
\* answered nothing.
UnhandledMessage(m, reason) ==
    /\ IsIdle(m)
    /\ fsm[m].state # "wait_reason"
    /\ reply' = Reply(m, "message", NoId, "none")
    /\ UNCHANGED <<posts, modMsg, adminMsg, delivered, notices, fsm, timers, prompted,
                   task, commits, calls>>
    /\ UNCHANGED intakeVars

\* lines 1981-1987: the expired branch renders the rollback and says so.
ReasonExpired(m, ok) ==
    /\ task[m].op = "reject_reason" /\ task[m].pc = "expired"
    /\ LET d == task[m].data IN
        modMsg' = reset_reject_state(task[m].pid, d.message_id, d.original_text, ok)
    /\ Finish(m, "expired")
    /\ UNCHANGED <<posts, adminMsg, delivered, notices, fsm, timers, prompted, commits, calls>>
    /\ UNCHANGED intakeVars

\* lines 1991-2006: the row is read and the status is written.
ReasonCommit(m) ==
    /\ task[m].op = "reject_reason" /\ task[m].pc = "commit"
    /\ LET pid == task[m].pid IN
        IF pid \notin PostIds
        THEN /\ Finish(m, "not_found")
             /\ UNCHANGED <<posts, commits>>
        ELSE /\ posts' = [posts EXCEPT ![pid] =
                            UpdateRejected(@, m, commits + 1, task[m].reason)]
             /\ commits' = commits + 1
             /\ task' = [task EXCEPT ![m].pc = "finish"]
             /\ reply' = NoReply
    /\ UNCHANGED <<modMsg, adminMsg, delivered, notices, fsm, timers, prompted, calls>>
    /\ UNCHANGED intakeVars

\* lines 2008-2055: admin view, the disabled keyboard on the review message,
\* the author notice, log and confirmation.
ReasonFinish(m, adminOk, editOk, noticeOk) ==
    /\ task[m].op = "reject_reason" /\ task[m].pc = "finish"
    /\ LET pid == task[m].pid
           d == task[m].data
       IN /\ adminMsg' = update_admin_message_status(pid, "rejected", adminOk)
          /\ modMsg' = IF editOk
                       THEN [modMsg EXCEPT ![d.message_id] =
                                [text |-> d.original_text,
                                 kb |-> disabled_moderation_keyboard(pid, "rejected")]]
                       ELSE modMsg
          /\ notices' = IF noticeOk
                        THEN [notices EXCEPT ![pid].rejected = @ + 1]
                        ELSE notices
    /\ Finish(m, "rejected")
    /\ UNCHANGED <<posts, delivered, fsm, timers, prompted, commits, calls>>
    /\ UNCHANGED intakeVars

\* ------------------------------------------------------------------- time
Older(age, d, cap) == IF age + d > cap THEN cap ELSE age + d

\* d seconds pass: every timestamp and every timer gets older.
Tick(d) ==
    /\ \/ \E m \in Moderators : fsm[m].state = "wait_reason" /\ fsm[m].age < AgeCap
       \/ \E i \in 1..Len(timers) : timers[i].pc # "edit" /\ timers[i].age < SleepSeconds
    /\ fsm' = [m \in Moderators |->
                IF fsm[m].state = "wait_reason"
                THEN [fsm[m] EXCEPT !.age = Older(@, d, AgeCap)]
                ELSE fsm[m]]
    /\ timers' = [i \in 1..Len(timers) |->
                IF timers[i].pc # "edit"
                THEN [timers[i] EXCEPT !.age = Older(@, d, SleepSeconds)]
                ELSE timers[i]]
    /\ reply' = NoReply
    /\ UNCHANGED <<posts, modMsg, adminMsg, delivered, notices, prompted, task, commits, calls>>
    /\ UNCHANGED intakeVars

Next ==
    \/ \E u \in Authors, t \in PostTexts, ph \in Photos : Submit(u, t, ph, TRUE, TRUE)
    \/ \E m \in Moderators, pid \in PostIds, c \in BOOLEAN : PublishCheck(m, pid, c)
    \/ \E m \in Moderators, ok \in BOOLEAN : PublishDeliver(m, ok)
    \/ \E m \in Moderators : PublishCommit(m)
    \/ \E m \in Moderators, a \in BOOLEAN, n \in BOOLEAN : PublishFinish(m, a, n)
    \/ \E m \in Moderators, pid \in PostIds, c \in BOOLEAN : RejectCheck(m, pid, c)
    \/ \E m \in Moderators : RejectSetState(m)
    \/ \E m \in Moderators, o \in {"ok", "send_failed", "answer_failed"} : RejectPrompt(m, o)
    \/ \E i \in 1..Len(timers) : TimerFire(i)
    \/ \E i \in 1..Len(timers), ok \in BOOLEAN : TimerEdit(i, ok)
    \/ \E m \in Moderators, pid \in PostIds : CancelRej(m, pid)
    \/ \E m \in Moderators, ok \in BOOLEAN : CancelEdit(m, ok)
    \/ \E m \in Moderators, r \in Reasons : ReasonReceive(m, r)
    \/ \E m \in Moderators, r \in Reasons : UnhandledMessage(m, r)
    \/ \E m \in Moderators, ok \in BOOLEAN : ReasonExpired(m, ok)
    \/ \E m \in Moderators : ReasonCommit(m)
    \/ \E m \in Moderators, a \in BOOLEAN, e \in BOOLEAN, n \in BOOLEAN : ReasonFinish(m, a, e, n)
    \/ \E d \in TickSteps : Tick(d)

Spec == Init /\ [][Next]_vars

\* The event loop runs every task that can run: a handler that was started
\* takes its next step, a timer whose sleep is over wakes up, and time passes.
\* Nothing obliges a moderator to press a button or to write a message.
Fairness ==
    /\ WF_vars(\E m \in Moderators, ok \in BOOLEAN : PublishDeliver(m, ok))
    /\ WF_vars(\E m \in Moderators : PublishCommit(m))
    /\ WF_vars(\E m \in Moderators, a \in BOOLEAN, n \in BOOLEAN : PublishFinish(m, a, n))
    /\ WF_vars(\E m \in Moderators : RejectSetState(m))
    /\ WF_vars(\E m \in Moderators, o \in {"ok", "send_failed", "answer_failed"} : RejectPrompt(m, o))
    /\ WF_vars(\E i \in 1..Len(timers) : TimerFire(i))
    /\ WF_vars(\E i \in 1..Len(timers), ok \in BOOLEAN : TimerEdit(i, ok))
    /\ WF_vars(\E m \in Moderators, ok \in BOOLEAN : CancelEdit(m, ok))
    /\ WF_vars(\E m \in Moderators, ok \in BOOLEAN : ReasonExpired(m, ok))
    /\ WF_vars(\E m \in Moderators : ReasonCommit(m))
    /\ WF_vars(\E m \in Moderators, a \in BOOLEAN, e \in BOOLEAN, n \in BOOLEAN : ReasonFinish(m, a, e, n))
    /\ WF_vars(\E d \in TickSteps : Tick(d))

FairSpec == Spec /\ Fairness

\* Submissions whose renders to the moderators' and the admins' topic may
\* fail, followed by the publication of the posts.
RenderNext ==
    \/ \E u \in Authors, t \in PostTexts, ph \in Photos, mo \in BOOLEAN, ao \in BOOLEAN :
            Submit(u, t, ph, mo, ao)
    \/ \E m \in Moderators, pid \in PostIds, c \in BOOLEAN : PublishCheck(m, pid, c)
    \/ \E m \in Moderators, ok \in BOOLEAN : PublishDeliver(m, ok)
    \/ \E m \in Moderators : PublishCommit(m)
    \/ \E m \in Moderators, a \in BOOLEAN, n \in BOOLEAN : PublishFinish(m, a, n)

RenderSpec == Init /\ [][RenderNext]_vars

\* ======================================================== post submission
\* The private chat of an author.  One author's updates are handled one at a
\* time here: the author acts on the answer to the previous update.  All
\* rows are of the same calendar day.

\* ---------------------------------------------------------------- texts
\* A text is a sequence of characters.  "M" and "W" stand for the two marker
\* emoji, " " is whitespace, "A" and "B" are the capitals of "a" and "b".
Rep(c, n) == [i \in 1..n |-> c]

\* str.lower()
lower(text) ==
    [i \in 1..Len(text) |->
        IF text[i] = "A" THEN "a" ELSE IF text[i] = "B" THEN "b" ELSE text[i]]

\* str.lstrip(), str.rstrip(), str.strip()
RECURSIVE lstrip(_)
lstrip(text) ==
    IF text # <<>> /\ Head(text) = " " THEN lstrip(Tail(text)) ELSE text

RECURSIVE rstrip(_)
rstrip(text) ==
    IF text # <<>> /\ text[Len(text)] = " "
    THEN rstrip(SubSeq(text, 1, Len(text) - 1))
    ELSE text

strip(text) == rstrip(lstrip(text))

\* keyword in text
Contains(keyword, text) ==
    \E i \in 0..(Len(text) - Len(keyword)) : SubSeq(text, i + 1, i + Len(keyword)) = keyword

HasMarker(text) == \E i \in 1..Len(text) : text[i] \in {"M", "W"}

validate_post_text(text) ==
    IF text = <<>> \/ strip(text) = <<>> THEN "empty"
    ELSE IF Len(strip(text)) < MinTextLen THEN "short"
    ELSE IF Len(text) > MaxTextLen THEN "long"
    ELSE IF ~HasMarker(text) THEN "no_marker"
    ELSE "ok"

is_in_publication_blacklist_CaseSensitive(text) ==
    \E keyword \in blacklist : Contains(keyword, text)

is_in_publication_blacklist(text) ==
    \E keyword \in blacklist : Contains(keyword, lower(text))

\* Keywords as the admin types them after /blacklist_add.
RawKeywords == { <<" ", "a", "B">> }

\* The texts the author sends: the shortest and the longest valid text (the
\* longest one contains "Ab"), and one text for each way of being invalid.
ShortestValid == <<"M", "a", "a", "a", "a">>
LongestValid == <<"W", " ", "A", "b">> \o Rep("a", MaxTextLen - 4)
TooShort == <<"M", "a", "a", "a">>
ShortWhenStripped == <<" ", "M", "a", "a", "a", " ">>
TooLong == <<"M">> \o Rep("a", MaxTextLen)
NoMarker == <<"a", "a", "a", "a", "a">>
Blank == <<" ", " ">>
InvalidWithKeyword == <<"A", "B">>

ValidTexts == {ShortestValid, LongestValid}
InvalidTexts == {TooShort, ShortWhenStripped, TooLong, NoMarker, Blank, InvalidWithKeyword}

\* A message of the author: a text message, or a photo (msg.text is None).
TextMessage(text) == [kind |-> "text", text |-> text, photo |-> NoText]
PhotoMessage == [kind |-> "photo", text |-> <<>>, photo |-> "file"]
Messages == {TextMessage(t) : t \in ValidTexts \cup InvalidTexts} \cup {PhotoMessage}

\* ------------------------------------------------------------- the chat
\* Every message of the bot that carries buttons is in one of these views;
\* views[u][v] is the number of messages in the author's chat showing v.
\*   main       main_menu(): offer
\*   type       the post type menu: with_photo, no_photo, menu
\*   prompt     back_to_previous(): back_to_previous_step
\*   menu_btn   menu_btn(): menu
\*   offer_btn  back_to_post_type(): offer
\*   subscribe  get_subscription_keyboard(): check_subscription
RECURSIVE Sum(_, _)
Sum(f, S) == IF S = {} THEN 0 ELSE LET x == CHOOSE y \in S : TRUE IN f[x] + Sum(f, S \ {x})

\* msg.answer(..., reply_markup=...): a new message.  The author keeps at
\* most MaxMenus messages with buttons and deletes a new one beyond that.
Answer(chat, view) ==
    IF Sum(chat, Views) < MaxMenus THEN [chat EXCEPT ![view] = @ + 1] ELSE chat

\* cb.message.edit_text(..., reply_markup=...): the pressed message changes view.
Edit(chat, from, to) ==
    IF from = to THEN chat ELSE [chat EXCEPT ![from] = @ - 1, ![to] = @ + 1]

\* ---------------------------------------------------------- the database
is_banned_Never(user_id) == FALSE

is_banned(user_id) == user_id \in bans

get_user_subscription_status(user_id) == users[user_id] = "verified"

update_user_subscription_status(table, user_id) ==
    IF table[user_id] = "none" THEN table ELSE [table EXCEPT ![user_id] = "verified"]

register_user(user_id) ==
    IF users[user_id] = "none" THEN [users EXCEPT ![user_id] = "unverified"] ELSE users

posts_today(user_id) == Cardinality({i \in PostIds : posts[i].user_id = user_id})

\* The subscriptions of a list.
Listed(list) == {list[i] : i \in 1..Len(list)}

\* The list check_subscription returns: the channels the user is not a
\* member of, and every subscription of type 'bot'.
check_subscription(user_id) ==
    {s \in Listed(subs) : s \in Bots \/ s \notin member[user_id]}

unsubscribed_channels(user_id) == {s \in check_subscription(user_id) : s \in Channels}

\* SubscriptionMiddleware for a private update of a non-admin other than
\* /start and check_subscription.
SubscriptionMiddleware(user_id) ==
    IF is_banned(user_id) THEN "banned"
    ELSE IF get_user_subscription_status(user_id) THEN "pass"
    ELSE IF unsubscribed_channels(user_id) # {} THEN "subscribe"
    ELSE "verified"

\* The users table when the middleware has let the update through.
Passed(user_id) ==
    IF SubscriptionMiddleware(user_id) = "verified"
    THEN update_user_subscription_status(users, user_id)
    ELSE users

\* ---------------------------------------------------------- the handlers
Passes(user_id) == SubscriptionMiddleware(user_id) \in {"pass", "verified"}

\* The middleware stops a message: a banned author gets no answer, an
\* unsubscribed one gets the subscription keyboard.
MessageDenied(u, op) ==
    /\ ~Passes(u)
    /\ views' = IF SubscriptionMiddleware(u) = "subscribe"
                THEN [views EXCEPT ![u] = Answer(@, "subscribe")]
                ELSE views
    /\ reply' = Reply(u, op, NoId, SubscriptionMiddleware(u))
    /\ UNCHANGED <<ufsm, users, bans, blacklist, subs, required_subscriptions, saving, member>>
    /\ UNCHANGED postVars

\* The middleware stops a callback: a banned author gets an alert, for an
\* unsubscribed one the pressed message becomes the subscription keyboard.
CallbackDenied(u, op, from) ==
    /\ ~Passes(u)
    /\ views' = IF SubscriptionMiddleware(u) = "subscribe"
                THEN [views EXCEPT ![u] = Edit(@, from, "subscribe")]
                ELSE views
    /\ reply' = Reply(u, op, NoId, SubscriptionMiddleware(u))
    /\ UNCHANGED <<ufsm, users, bans, blacklist, subs, required_subscriptions, saving, member>>
    /\ UNCHANGED postVars

\* /start: not filtered by the middleware, leaves the FSM state alone.
start(u) ==
    /\ IF is_banned(u)
       THEN /\ reply' = Reply(u, "start", NoId, "banned")
            /\ UNCHANGED <<users, views>>
       ELSE IF unsubscribed_channels(u) # {}
       THEN /\ users' = register_user(u)
            /\ views' = [views EXCEPT ![u] = Answer(@, "subscribe")]
            /\ reply' = Reply(u, "start", NoId, "subscribe")
       ELSE /\ users' = update_user_subscription_status(register_user(u), u)
            /\ views' = [views EXCEPT ![u] = Answer(@, "main")]
            /\ reply' = Reply(u, "start", NoId, "main")
    /\ UNCHANGED <<ufsm, bans, blacklist, subs, required_subscriptions, saving, member>>
    /\ UNCHANGED postVars
    /\ UNCHANGED modVars

\* The check_subscription button: not filtered by the middleware.
check_subscription_callback(u) ==
    /\ views[u]["subscribe"] > 0
    /\ IF unsubscribed_channels(u) # {}
       THEN /\ reply' = Reply(u, "check_subscription", NoId, "subscribe")
            /\ UNCHANGED <<users, views>>
       ELSE /\ users' = update_user_subscription_status(users, u)
            /\ views' = [views EXCEPT ![u] = Edit(@, "subscribe", "main")]
            /\ reply' = Reply(u, "check_subscription", NoId, "main")
    /\ UNCHANGED <<ufsm, bans, blacklist, subs, required_subscriptions, saving, member>>
    /\ UNCHANGED postVars
    /\ UNCHANGED modVars

\* The offer button of a main menu or of a validation error.
offer(u, from) ==
    /\ from \in {"main", "offer_btn"}
    /\ views[u][from] > 0
    /\ \/ CallbackDenied(u, "offer", from)
       \/ /\ Passes(u)
          /\ users' = Passed(u)
          /\ IF is_banned(u)
             THEN reply' = Reply(u, "offer", NoId, "banned") /\ UNCHANGED views
             ELSE IF posts_today(u) >= DailyLimit
             THEN reply' = Reply(u, "offer", NoId, "limit") /\ UNCHANGED views
             ELSE /\ views' = [views EXCEPT ![u] = Edit(@, from, "type")]
                  /\ reply' = Reply(u, "offer", NoId, "type")
          /\ UNCHANGED <<ufsm, bans, blacklist, subs, required_subscriptions, saving, member>>
          /\ UNCHANGED postVars
    /\ UNCHANGED modVars

\* The with_photo and no_photo buttons of a post type menu.
ChooseType(u, op, state) ==
    \/ CallbackDenied(u, op, "type")
    \/ /\ Passes(u)
       /\ users' = Passed(u)
       /\ IF is_banned(u)
          THEN reply' = Reply(u, op, NoId, "banned") /\ UNCHANGED <<ufsm, views>>
          ELSE /\ ufsm' = [ufsm EXCEPT ![u] = [@ EXCEPT !.state = state]]
               /\ views' = [views EXCEPT ![u] = Edit(@, "type", "prompt")]
               /\ reply' = Reply(u, op, NoId, "prompt")
       /\ UNCHANGED <<bans, blacklist, subs, required_subscriptions, saving, member>>
       /\ UNCHANGED postVars

with_photo(u) ==
    /\ views[u]["type"] > 0
    /\ ChooseType(u, "with_photo", "wait_photo")
    /\ UNCHANGED modVars

no_photo(u) ==
    /\ views[u]["type"] > 0
    /\ ChooseType(u, "no_photo", "wait_text_only")
    /\ UNCHANGED modVars

\* The back button of a prompt: the state is cleared before any check.
back_to_previous_step(u) ==
    /\ views[u]["prompt"] > 0
    /\ \/ CallbackDenied(u, "back_to_previous_step", "prompt")
       \/ /\ Passes(u)
          /\ users' = Passed(u)
          /\ ufsm' = [ufsm EXCEPT ![u] = NoPostState]
          /\ IF is_banned(u)
             THEN reply' = Reply(u, "back_to_previous_step", NoId, "banned") /\ UNCHANGED views
             ELSE IF posts_today(u) >= DailyLimit
             THEN reply' = Reply(u, "back_to_previous_step", NoId, "limit") /\ UNCHANGED views
             ELSE /\ views' = [views EXCEPT ![u] = Edit(@, "prompt", "type")]
                  /\ reply' = Reply(u, "back_to_previous_step", NoId, "type")
          /\ UNCHANGED <<bans, blacklist, subs, required_subscriptions, saving, member>>
          /\ UNCHANGED postVars
    /\ UNCHANGED modVars

\* The menu button of a post type menu or of an answer.
menu(u, from) ==
    /\ from \in {"type", "menu_btn"}
    /\ views[u][from] > 0
    /\ \/ CallbackDenied(u, "menu", from)
       \/ /\ Passes(u)
          /\ users' = Passed(u)
          /\ ufsm' = [ufsm EXCEPT ![u] = NoPostState]
          /\ views' = [views EXCEPT ![u] = Edit(@, from, "main")]
          /\ reply' = Reply(u, "menu", NoId, "main")
          /\ UNCHANGED <<bans, blacklist, subs, required_subscriptions, saving, member>>
          /\ UNCHANGED postVars
    /\ UNCHANGED modVars

\* A message in state wait_photo.
get_photo(u, msg) ==
    /\ ufsm[u].state = "wait_photo"
    /\ \/ MessageDenied(u, "get_photo")
       \/ /\ Passes(u)
          /\ users' = Passed(u)
          /\ IF is_banned(u)
             THEN reply' = Reply(u, "get_photo", NoId, "banned") /\ UNCHANGED <<ufsm, views>>
             ELSE IF msg.kind # "photo"
             THEN /\ views' = [views EXCEPT ![u] = Answer(@, "prompt")]
                  /\ reply' = Reply(u, "get_photo", NoId, "need_photo")
                  /\ UNCHANGED ufsm
             ELSE /\ ufsm' = [ufsm EXCEPT ![u] =
                               [state |-> "wait_text_after_photo", photo |-> msg.photo]]
                  /\ views' = [views EXCEPT ![u] = Answer(@, "offer_btn")]
                  /\ reply' = Reply(u, "get_photo", NoId, "text")
          /\ UNCHANGED <<bans, blacklist, subs, required_subscriptions, saving, member>>
          /\ UNCHANGED postVars
    /\ UNCHANGED modVars

\* What get_text_only and get_text_after_photo make of a message once the
\* middleware has let it through.  msg.text is None for a message that is
\* not a text: is_in_publication_blacklist raises on None.lower() and the
\* handler ends there, without an answer.
TextOutcome(u, msg) ==
    IF is_banned(u) THEN "banned"
    ELSE IF msg.kind # "text" THEN "error"
    ELSE IF is_in_publication_blacklist(msg.text) THEN "blacklisted"
    ELSE validate_post_text(msg.text)

\* INSERT INTO posts, then send_to_moderation renders the post.
InsertPost(user_id, text, photo) ==
    /\ posts' = Append(posts, NewPost(user_id, text, photo))
    /\ modMsg' = Append(modMsg, send_to_moderation(Len(posts) + 1, text))
    /\ adminMsg' = Append(adminMsg, "new")
    /\ delivered' = Append(delivered, 0)
    /\ notices' = Append(notices, [published |-> 0, rejected |-> 0])

SubmitText(u, msg, op, photo, cap) ==
    \/ MessageDenied(u, op)
    \/ /\ Passes(u)
       /\ users' = Passed(u)
       /\ LET outcome == TextOutcome(u, msg) IN
          IF outcome \in {"banned", "error"}
          THEN /\ reply' = Reply(u, op, NoId, outcome)
               /\ UNCHANGED <<ufsm, views>>
               /\ UNCHANGED postVars
          ELSE IF outcome = "blacklisted"
          THEN /\ ufsm' = [ufsm EXCEPT ![u] = NoPostState]
               /\ views' = [views EXCEPT ![u] = Answer(@, "menu_btn")]
               /\ reply' = Reply(u, op, NoId, outcome)
               /\ UNCHANGED postVars
          ELSE IF outcome # "ok"
          THEN /\ views' = [views EXCEPT ![u] = Answer(@, "offer_btn")]
               /\ reply' = Reply(u, op, NoId, outcome)
               /\ UNCHANGED ufsm
               /\ UNCHANGED postVars
          ELSE /\ Len(posts) < cap
               /\ ufsm' = [ufsm EXCEPT ![u] = NoPostState]
               /\ InsertPost(u, msg.text, photo)
               /\ views' = [views EXCEPT ![u] = Answer(@, "menu_btn")]
               /\ reply' = Reply(u, op, Len(posts) + 1, "sent")
       /\ UNCHANGED <<bans, blacklist, subs, required_subscriptions, saving, member>>

\* A message in state wait_text_after_photo.
get_text_after_photo(u, msg, cap) ==
    /\ ufsm[u].state = "wait_text_after_photo"
    /\ SubmitText(u, msg, "get_text_after_photo", ufsm[u].photo, cap)
    /\ UNCHANGED modVars

\* A message in state wait_text_only.
get_text_only(u, msg, cap) ==
    /\ ufsm[u].state = "wait_text_only"
    /\ SubmitText(u, msg, "get_text_only", NoText, cap)
    /\ UNCHANGED modVars

\* ------------------------------------------------- admins and Telegram
\* /ban of a user that has a row in users.
ban_user(u) ==
    /\ users[u] # "none"
    /\ bans' = bans \cup {u}
    /\ reply' = NoReply
    /\ UNCHANGED <<ufsm, users, blacklist, subs, required_subscriptions, saving, member, views>>
    /\ UNCHANGED postVars
    /\ UNCHANGED modVars

unban_user(u) ==
    /\ u \in bans
    /\ bans' = bans \ {u}
    /\ reply' = NoReply
    /\ UNCHANGED <<ufsm, users, blacklist, subs, required_subscriptions, saving, member, views>>
    /\ UNCHANGED postVars
    /\ UNCHANGED modVars

\* keyword.strip() alone, without the lower() of line 414.
keyword_clean_NotLowered(keyword) == strip(keyword)

\* keyword.strip().lower() of add_to_publication_blacklist and
\* remove_from_publication_blacklist.
keyword_clean(keyword) == lower(strip(keyword))

\* An INSERT that also rejects the pending posts containing the keyword.
add_to_publication_blacklist_RejectsMatching(keyword) ==
    /\ keyword_clean(keyword) \notin blacklist
    /\ blacklist' = blacklist \cup {keyword_clean(keyword)}
    /\ posts' = [pid \in PostIds |->
                    IF posts[pid].status = "moderation"
                       /\ Contains(keyword_clean(keyword), lower(posts[pid].text))
                    THEN [posts[pid] EXCEPT !.status = "rejected"]
                    ELSE posts[pid]]
    /\ reply' = NoReply
    /\ UNCHANGED <<ufsm, users, bans, subs, required_subscriptions, saving, member, views>>
    /\ UNCHANGED <<modMsg, adminMsg, delivered, notices>>
    /\ UNCHANGED modVars

\* The INSERT of a keyword that is not in the table yet.
add_to_publication_blacklist(keyword) ==
    /\ keyword_clean(keyword) \notin blacklist
    /\ blacklist' = blacklist \cup {keyword_clean(keyword)}
    /\ reply' = NoReply
    /\ UNCHANGED <<ufsm, users, bans, subs, required_subscriptions, saving, member, views>>
    /\ UNCHANGED postVars
    /\ UNCHANGED modVars

\* The DELETE of a keyword that is in the table.
remove_from_publication_blacklist(keyword) ==
    /\ keyword_clean(keyword) \in blacklist
    /\ blacklist' = blacklist \ {keyword_clean(keyword)}
    /\ reply' = NoReply
    /\ UNCHANGED <<ufsm, users, bans, subs, required_subscriptions, saving, member, views>>
    /\ UNCHANGED postVars
    /\ UNCHANGED modVars

\* A handler answers its caller and changes nothing.
Answered(caller, op, ans) ==
    /\ reply' = Reply(caller, op, NoId, ans)
    /\ UNCHANGED intakeVars
    /\ UNCHANGED postVars
    /\ UNCHANGED modVars

\* A command typed in the private chat by a user who is not an admin: the
\* handler returns at once, but the update went through
\* SubscriptionMiddleware first (lines 945-978).
NonAdminMessage(caller, op) ==
    \/ /\ MessageDenied(caller, op)
       /\ UNCHANGED modVars
    \/ /\ Passes(caller)
       /\ users' = Passed(caller)
       /\ reply' = Reply(caller, op, NoId, "none")
       /\ UNCHANGED <<ufsm, bans, blacklist, subs, required_subscriptions, saving, member, views>>
       /\ UNCHANGED postVars
       /\ UNCHANGED modVars

\* lines 185-204: DELETE FROM required_subscriptions, one INSERT for each
\* element of the list in its order, commit: the rows of the table afterwards.
save_subscriptions_to_db(list) == list

\* The subscription dialog of the admin panel: a caller who is not an admin
\* is ignored, a subscription that is in the list is refused, another one
\* is appended; the users table is not touched.
process_subscription_add(caller, s) ==
    IF caller \notin ADMINS THEN Answered(caller, "process_subscription_add", "none")
    ELSE IF s \in Listed(subs) THEN Answered(caller, "process_subscription_add", "exists")
    ELSE /\ subs' = Append(subs, s)
         /\ required_subscriptions' = save_subscriptions_to_db(Append(subs, s))
         /\ reply' = NoReply
         /\ UNCHANGED <<ufsm, users, bans, blacklist, saving, member, views>>
         /\ UNCHANGED postVars
         /\ UNCHANGED modVars

\* The remove_sub_ button: only for admins, and only for an index of the
\* list; the element is popped and the list is saved.
process_remove_subscription(caller, index) ==
    IF caller \notin ADMINS THEN Answered(caller, "process_remove_subscription", "no_access")
    ELSE IF ~(0 <= index /\ index < Len(subs))
    THEN Answered(caller, "process_remove_subscription", "bad_index")
    ELSE /\ subs' = Remove(subs, index + 1)
         /\ required_subscriptions' = save_subscriptions_to_db(Remove(subs, index + 1))
         /\ reply' = NoReply
         /\ UNCHANGED <<ufsm, users, bans, blacklist, saving, member, views>>
         /\ UNCHANGED postVars
         /\ UNCHANGED modVars

\* lines 160-183: the list becomes the rows of the table; an empty table is
\* filled from the list instead.
load_subscriptions_from_db ==
    IF required_subscriptions # <<>>
    THEN subs' = required_subscriptions /\ UNCHANGED required_subscriptions
    ELSE required_subscriptions' = save_subscriptions_to_db(subs) /\ UNCHANGED subs

\* The refresh_subscriptions button: the list is read back from the table.
refresh_subscriptions(caller) ==
    IF caller \notin ADMINS THEN Answered(caller, "refresh_subscriptions", "no_access")
    ELSE /\ load_subscriptions_from_db
         /\ reply' = Reply(caller, "refresh_subscriptions", NoId, "refreshed")
         /\ UNCHANGED <<ufsm, users, bans, blacklist, saving, member, views>>
         /\ UNCHANGED postVars
         /\ UNCHANGED modVars

ban_command_Unchecked(caller, u) ==
    IF users[u] = "none" THEN Answered(caller, "ban_command", "not_found")
    ELSE ban_user(u)

\* /ban: a caller who is not an admin is ignored; the user must have a row
\* in users.
ban_command(caller, u) ==
    IF caller \notin ADMINS THEN NonAdminMessage(caller, "ban_command")
    ELSE IF users[u] = "none" THEN Answered(caller, "ban_command", "not_found")
    ELSE ban_user(u)

\* /unban: a caller who is not an admin is ignored; the user must be banned.
unban_command(caller, u) ==
    IF caller \notin ADMINS THEN NonAdminMessage(caller, "unban_command")
    ELSE IF ~is_banned(u) THEN Answered(caller, "unban_command", "not_banned")
    ELSE unban_user(u)

\* /blacklist_add and the keyword dialog (process_blacklist_keyword): the
\* stripped keyword needs two characters; add_to_publication_blacklist
\* returns False for a keyword that is in the table.
blacklist_add_command(caller, op, keyword) ==
    IF caller \notin ADMINS
    THEN IF op = "blacklist_add_command" THEN NonAdminMessage(caller, op)
         ELSE Answered(caller, op, "none")
    ELSE IF Len(strip(keyword)) < 2 THEN Answered(caller, op, "too_short")
    ELSE IF keyword_clean(keyword) \in blacklist THEN Answered(caller, op, "exists")
    ELSE add_to_publication_blacklist(keyword)

\* /blacklist_remove and the keyword dialog (process_remove_blacklist_keyword).
blacklist_remove_command(caller, op, keyword) ==
    IF caller \notin ADMINS
    THEN IF op = "blacklist_remove_command" THEN NonAdminMessage(caller, op)
         ELSE Answered(caller, op, "none")
    ELSE IF keyword_clean(keyword) \notin blacklist THEN Answered(caller, op, "removed")
    ELSE remove_from_publication_blacklist(keyword)

\* The author joins or leaves a channel.
JoinChannel(u, c) ==
    /\ c \notin member[u]
    /\ member' = [member EXCEPT ![u] = @ \cup {c}]
    /\ reply' = NoReply
    /\ UNCHANGED <<ufsm, users, bans, blacklist, subs, required_subscriptions, saving, views>>
    /\ UNCHANGED postVars
    /\ UNCHANGED modVars

LeaveChannel(u, c) ==
    /\ c \in member[u]
    /\ member' = [member EXCEPT ![u] = @ \ {c}]
    /\ reply' = NoReply
    /\ UNCHANGED <<ufsm, users, bans, blacklist, subs, required_subscriptions, saving, views>>
    /\ UNCHANGED postVars
    /\ UNCHANGED modVars

IntakeNext ==
    \/ \E u \in Authors : start(u)
    \/ \E u \in Authors : check_subscription_callback(u)
    \/ \E u \in Authors, from \in {"main", "offer_btn"} : offer(u, from)
    \/ \E u \in Authors : with_photo(u)
    \/ \E u \in Authors : no_photo(u)
    \/ \E u \in Authors : back_to_previous_step(u)
    \/ \E u \in Authors, from \in {"type", "menu_btn"} : menu(u, from)
    \/ \E u \in Authors, msg \in Messages : get_photo(u, msg)
    \/ \E u \in Authors, msg \in Messages : get_text_after_photo(u, msg, MaxIntake)
    \/ \E u \in Authors, msg \in Messages : get_text_only(u, msg, MaxIntake)
    \/ \E u \in Authors : ban_user(u)
    \/ \E u \in Authors : unban_user(u)
    \/ \E keyword \in RawKeywords : add_to_publication_blacklist(keyword)
    \/ \E keyword \in blacklist : remove_from_publication_blacklist(keyword)
    \/ \E caller \in ADMINS, s \in (Channels \cup Bots) \ Listed(subs) : process_subscription_add(caller, s)
    \/ \E caller \in ADMINS, index \in 0..(Len(subs) - 1) : process_remove_subscription(caller, index)
    \/ \E u \in Authors, c \in Channels : JoinChannel(u, c)
    \/ \E u \in Authors, c \in Channels : LeaveChannel(u, c)

IntakeSpec == Init /\ [][IntakeNext]_vars

\* The text-only flow of an author who sends a valid text every time, with
\* room for more rows than the daily limit.
QuotaNext ==
    \/ \E u \in Authors : start(u)
    \/ \E u \in Authors, from \in {"main", "offer_btn"} : offer(u, from)
    \/ \E u \in Authors : no_photo(u)
    \/ \E u \in Authors : back_to_previous_step(u)
    \/ \E u \in Authors, from \in {"type", "menu_btn"} : menu(u, from)
    \/ \E u \in Authors : get_text_only(u, TextMessage(ShortestValid), MaxQuota)

QuotaSpec == Init /\ [][QuotaNext]_vars

\* The admin commands and dialogs, called by admins and by authors.
Callers == ADMINS \cup Authors

\* The keywords the callers type.
TypedKeywords == RawKeywords \cup { <<"A", "b", " ">>, <<"b", "b">>, <<"a", " ">> }

AdminNext ==
    \/ \E u \in Authors : start(u)
    \/ \E caller \in Callers, u \in Authors : ban_command(caller, u)
    \/ \E caller \in Callers, u \in Authors : unban_command(caller, u)
    \/ \E caller \in Callers, keyword \in TypedKeywords,
            op \in {"blacklist_add_command", "process_blacklist_keyword"} :
                blacklist_add_command(caller, op, keyword)
    \/ \E caller \in Callers, keyword \in TypedKeywords,
            op \in {"blacklist_remove_command", "process_remove_blacklist_keyword"} :
                blacklist_remove_command(caller, op, keyword)
    \/ \E caller \in Callers, s \in Channels \cup Bots : process_subscription_add(caller, s)
    \/ \E caller \in Callers, index \in 0..Cardinality(Channels \cup Bots) :
            process_remove_subscription(caller, index)
    \/ \E caller \in Callers : refresh_subscriptions(caller)

AdminSpec == Init /\ [][AdminNext]_vars

\* The text-only flow of an author whose text contains "Ab", the blacklist
\* commands of an admin, and the publish and reject handlers of the
\* moderators.
BlacklistNext ==
    \/ \E u \in Authors : start(u)
    \/ \E u \in Authors : offer(u, "main")
    \/ \E u \in Authors : no_photo(u)
    \/ \E u \in Authors : get_text_only(u, TextMessage(LongestValid), MaxPosts)
    \/ \E caller \in ADMINS, keyword \in RawKeywords :
            blacklist_add_command(caller, "blacklist_add_command", keyword)
    \/ \E caller \in ADMINS, keyword \in RawKeywords :
            blacklist_remove_command(caller, "blacklist_remove_command", keyword)
    \/ \E m \in Moderators, pid \in PostIds : PublishCheck(m, pid, TRUE)
    \/ \E m \in Moderators, ok \in BOOLEAN : PublishDeliver(m, ok)
    \/ \E m \in Moderators : PublishCommit(m)
    \/ \E m \in Moderators, a \in BOOLEAN, n \in BOOLEAN : PublishFinish(m, a, n)
    \/ \E m \in Moderators, pid \in PostIds : RejectCheck(m, pid, TRUE)
    \/ \E m \in Moderators : RejectSetState(m)
    \/ \E m \in Moderators, o \in {"ok", "send_failed", "answer_failed"} : RejectPrompt(m, o)
    \/ \E m \in Moderators, r \in Reasons : ReasonReceive(m, r)
    \/ \E m \in Moderators : ReasonCommit(m)
    \/ \E m \in Moderators, a \in BOOLEAN, e \in BOOLEAN, n \in BOOLEAN : ReasonFinish(m, a, e, n)

BlacklistSpec == Init /\ [][BlacklistNext]_vars

\* ------------------------------------------- the subscription list, in steps
\* The same three handlers cut at their awaits: the list is changed in
\* memory first, then save_subscriptions_to_db opens its own connection,
\* deletes and inserts inside one transaction, and commits.  Another
\* connection reads the committed rows until then; a second writer waits
\* for the commit.
SaveCall(caller, op) == [caller |-> caller, op |-> op, pc |-> "delete", rows |-> <<>>]

SubsFrame ==
    /\ UNCHANGED <<ufsm, users, bans, blacklist, member, views>>
    /\ UNCHANGED postVars
    /\ UNCHANGED modVars

\* lines 1137-1150 and 1178-1191: the duplicate test and the append.
SubscriptionAddStart(caller, s) ==
    /\ caller \in ADMINS
    /\ s \notin Listed(subs)
    /\ Len(saving) < MaxSaves
    /\ subs' = Append(subs, s)
    /\ saving' = Append(saving, SaveCall(caller, "process_subscription_add"))
    /\ reply' = NoReply
    /\ UNCHANGED required_subscriptions
    /\ SubsFrame

\* lines 1242-1246: the index test and the pop.
RemoveSubscriptionStart(caller, index) ==
    /\ caller \in ADMINS
    /\ 0 <= index /\ index < Len(subs)
    /\ Len(saving) < MaxSaves
    /\ subs' = Remove(subs, index + 1)
    /\ saving' = Append(saving, SaveCall(caller, "process_remove_subscription"))
    /\ reply' = NoReply
    /\ UNCHANGED required_subscriptions
    /\ SubsFrame

\* lines 1265-1271 with 160-183: the committed rows are fetched and, if there
\* are any, assigned to the list; an empty table starts a save of the list.
RefreshLoad(caller) ==
    /\ caller \in ADMINS
    /\ IF required_subscriptions # <<>>
       THEN /\ subs' = required_subscriptions
            /\ reply' = Reply(caller, "refresh_subscriptions", NoId, "refreshed")
            /\ UNCHANGED saving
       ELSE /\ Len(saving) < MaxSaves
            /\ saving' = Append(saving, SaveCall(caller, "refresh_subscriptions"))
            /\ reply' = NoReply
            /\ UNCHANGED subs
    /\ UNCHANGED required_subscriptions
    /\ SubsFrame

\* lines 187-200: DELETE takes the write lock of the database, then the
\* elements of the list as it is now are inserted.
SaveWrite(i) ==
    /\ i \in 1..Len(saving)
    /\ saving[i].pc = "delete"
    /\ \A j \in 1..Len(saving) : saving[j].pc # "commit"
    /\ saving' = [saving EXCEPT ![i] = [@ EXCEPT !.pc = "commit", !.rows = subs]]
    /\ reply' = NoReply
    /\ UNCHANGED <<subs, required_subscriptions>>
    /\ SubsFrame

\* line 203: the commit; the handler answers its admin.
SaveCommit(i) ==
    /\ i \in 1..Len(saving)
    /\ saving[i].pc = "commit"
    /\ required_subscriptions' = saving[i].rows
    /\ saving' = Remove(saving, i)
    /\ reply' = Reply(saving[i].caller, saving[i].op, NoId, "saved")
    /\ UNCHANGED subs
    /\ SubsFrame

SubsNext ==
    \/ \E caller \in ADMINS, s \in Channels \cup Bots : SubscriptionAddStart(caller, s)
    \/ \E caller \in ADMINS, index \in 0..(Len(subs) - 1) : RemoveSubscriptionStart(caller, index)
    \/ \E caller \in ADMINS : RefreshLoad(caller)
    \/ \E i \in 1..Len(saving) : SaveWrite(i)
    \/ \E i \in 1..Len(saving) : SaveCommit(i)

SubsSpec == Init /\ [][SubsNext]_vars

\* ------------------------------------------------------- callback routing
\* str.startswith.
StartsWith(data, prefix) ==
    Len(data) >= Len(prefix) /\ SubSeq(data, 1, Len(prefix)) = prefix

\* The callback_query handlers in the order of their registration, each
\* with its filter: F.data == data, or F.data.startswith(data).
CallbackHandlers == <<
    [name |-> "check_subscription_callback", kind |-> "eq", data |-> "check_subscription"],
    [name |-> "manage_subscriptions", kind |-> "eq", data |-> "manage_subscriptions"],
    [name |-> "list_subscriptions", kind |-> "eq", data |-> "list_subscriptions"],
    [name |-> "add_channel_subscription", kind |-> "eq", data |-> "add_channel_subscription"],
    [name |-> "add_bot_subscription", kind |-> "eq", data |-> "add_bot_subscription"],
    [name |-> "remove_subscription", kind |-> "eq", data |-> "remove_subscription"],
    [name |-> "process_remove_subscription", kind |-> "prefix", data |-> "remove_sub_"],
    [name |-> "refresh_subscriptions", kind |-> "eq", data |-> "refresh_subscriptions"],
    [name |-> "admins_page", kind |-> "eq", data |-> "admins"],
    [name |-> "offer", kind |-> "eq", data |-> "offer"],
    [name |-> "with_photo", kind |-> "eq", data |-> "with_photo"],
    [name |-> "no_photo", kind |-> "eq", data |-> "no_photo"],
    [name |-> "back_to_previous_step", kind |-> "eq", data |-> "back_to_previous_step"],
    [name |-> "who_published", kind |-> "prefix", data |-> "who_pub_"],
    [name |-> "who_rejected", kind |-> "prefix", data |-> "who_rej_"],
    [name |-> "confirm_pub", kind |-> "prefix", data |-> "pub_"],
    [name |-> "publish", kind |-> "prefix", data |-> "yes_"],
    [name |-> "cancel_pub", kind |-> "prefix", data |-> "no_"],
    [name |-> "reject", kind |-> "prefix", data |-> "rej_"],
    [name |-> "cancel_rej", kind |-> "prefix", data |-> "cancel_rej_"],
    [name |-> "disabled_button_handler", kind |-> "eq", data |-> "disabled"],
    [name |-> "rules", kind |-> "eq", data |-> "rules"],
    [name |-> "menu", kind |-> "eq", data |-> "menu"],
    [name |-> "profile", kind |-> "eq", data |-> "profile"],
    [name |-> "faq", kind |-> "eq", data |-> "faq"],
    [name |-> "ads", kind |-> "eq", data |-> "ads"],
    [name |-> "admin_panel_callback", kind |-> "eq", data |-> "admin_panel"],
    [name |-> "blacklist_panel", kind |-> "eq", data |-> "blacklist"],
    [name |-> "show_banned_users", kind |-> "eq", data |-> "banned_users"],
    [name |-> "show_pub_blacklist", kind |-> "eq", data |-> "pub_blacklist"],
    [name |-> "add_blacklist_keyword", kind |-> "eq", data |-> "add_blacklist_keyword"],
    [name |-> "remove_blacklist_keyword", kind |-> "eq", data |-> "remove_blacklist_keyword"],
    [name |-> "admin_stats", kind |-> "eq", data |-> "admin_stats"],
    [name |-> "show_admin_logs", kind |-> "eq", data |-> "admin_logs"],
    [name |-> "show_pending_posts", kind |-> "eq", data |-> "pending_posts"],
    [name |-> "broadcast_menu_handler", kind |-> "eq", data |-> "broadcast"] >>

Matches(h, data) ==
    IF h.kind = "eq" THEN data = h.data ELSE StartsWith(data, h.data)

NoHandler == "unhandled"

\* The dispatcher calls the first registered handler whose filter matches.
Route(data) ==
    IF \E i \in 1..Len(CallbackHandlers) : Matches(CallbackHandlers[i], data)
    THEN CallbackHandlers[CHOOSE i \in 1..Len(CallbackHandlers) :
            /\ Matches(CallbackHandlers[i], data)
            /\ \A j \in 1..(i - 1) : ~Matches(CallbackHandlers[j], data)].name
    ELSE NoHandler

\* The ids that the keyboards put behind a prefix.
ButtonIds == {"0", "1", "2"}

\* The callback data of the buttons of every keyboard of the bot.
Emitted ==
    { "add_blacklist_keyword", "add_bot_subscription",
      "add_channel_subscription", "admin_logs", "admin_panel",
      "admin_stats", "admins", "ads", "back_to_previous_step",
      "banned_users", "blacklist", "broadcast", "broadcast_cancel",
      "broadcast_photo", "broadcast_start", "broadcast_text",
      "check_subscription", "disabled", "faq", "list_subscriptions",
      "manage_subscriptions", "menu", "no_photo", "offer", "pending_posts",
      "profile", "pub_blacklist", "refresh_subscriptions",
      "remove_blacklist_keyword", "remove_subscription", "rules",
      "with_photo" }
    \cup { prefix \o id : prefix \in {"pub_", "rej_", "yes_", "no_", "cancel_rej_",
                                       "who_pub_", "who_rej_", "remove_sub_"},
                          id \in ButtonIds }

\* A button is pressed by somebody: the update is routed to a handler.
Dispatch(caller, data) ==
    /\ data \in Emitted
    /\ reply' = Reply(caller, Route(data), NoId, data)
    /\ UNCHANGED intakeVars
    /\ UNCHANGED postVars
    /\ UNCHANGED modVars

RouteNext ==
    \E caller \in Callers \cup Moderators, data \in Emitted : Dispatch(caller, data)

RouteSpec == Init /\ [][RouteNext]_vars

\* ================================================================ claims
Pending(pid) == posts[pid].status = "moderation"

\* C1: once a post's status is 'published' or 'rejected' it never changes
\* again, whatever handlers run afterwards.
C1_StatusNeverReverts ==
    [][\A pid \in PostIds :
          posts[pid].status \in {"published", "rejected"}
              => posts'[pid].status = posts[pid].status]_vars

\* C2: moderator_id, moderation_time and reject_reason of a post are written
\* at most once: after the first committed UPDATE no step changes them.
C2_DecisionWrittenOnce ==
    [][\A pid \in PostIds :
          posts[pid].moderator_id # NoId
              => /\ posts'[pid].moderator_id = posts[pid].moderator_id
                 /\ posts'[pid].moderation_time = posts[pid].moderation_time
                 /\ posts'[pid].reject_reason = posts[pid].reject_reason]_vars

\* C3: a post is delivered to the main channel at most once.
C3_DeliveredAtMostOnce ==
    \A pid \in PostIds : delivered[pid] <= 1

\* C4: a publish call that finds the post already 'published' ends at its
\* status test with the already-decided answer: no delivery, no write to the
\* row, nothing left running.
C4_PublishOnPublishedIsNoOp ==
    [][\A m \in Moderators, pid \in PostIds :
          (PublishCheck(m, pid, TRUE) /\ posts[pid].status = "published")
              => /\ reply' = Reply(m, "publish", pid, "already_decided")
                 /\ task'[m] = Idle
                 /\ UNCHANGED <<posts, delivered, notices, modMsg, adminMsg>>]_vars

C4_Witness ==
    \E m \in Moderators, pid \in PostIds :
        /\ reply = Reply(m, "publish", pid, "already_decided")
        /\ posts[pid].status = "published"
        /\ delivered[pid] = 1

\* C5: a reject call whose status read finds the post 'published' or
\* 'rejected' ends with the already-decided answer: no FSM state or data is
\* set, no timer is started and the row is unchanged.
C5_RejectOnDecidedIsRefused ==
    [][\A m \in Moderators, pid \in PostIds :
          (RejectCheck(m, pid, TRUE) /\ posts[pid].status \in {"published", "rejected"})
              => /\ reply' = Reply(m, "reject", pid, "already_decided")
                 /\ task'[m] = Idle
                 /\ UNCHANGED <<posts, fsm, timers, prompted, modMsg>>]_vars

C5_Witness ==
    \E a \in Moderators, b \in Moderators, pid \in PostIds :
        /\ a # b
        /\ posts[pid].status = "published" /\ posts[pid].moderator_id = a
        /\ reply = Reply(b, "reject", pid, "already_decided")
        /\ fsm[b] = NoState
        /\ timers = <<>>

\* C6: reject_reason writes a row only for a moderator whose awaiting-reason
\* state existed when the message arrived and was at most 70 s old; a reason
\* that arrives later than that, or when the state is gone, writes nothing and
\* is answered that the time has expired.
C6_ReasonOnlyWithinGrace ==
    [][/\ \A pid \in PostIds :
            (posts'[pid] # posts[pid] /\ posts'[pid].status = "rejected")
                => \E m \in Moderators :
                        /\ task[m].op = "reject_reason" /\ task[m].pid = pid
                        /\ task[m].data.state = "wait_reason"
                        /\ task[m].data.post_id = pid
                        /\ task[m].data.age <= GraceSeconds
                        /\ posts'[pid].moderator_id = m
       /\ \A m \in Moderators :
            (task[m].op = "reject_reason" /\ task[m].data.age > GraceSeconds
                                          /\ task'[m] # task[m])
                => /\ posts' = posts
                   /\ reply' = Reply(m, "reject_reason", task[m].pid, "expired")
       /\ \A m \in Moderators, pid \in PostIds :
            (/\ reply = Reply(m, "reject_timeout_handler", pid, "none")
             /\ \E r \in Reasons : UnhandledMessage(m, r))
                => /\ posts' = posts
                   /\ reply'.mod = m /\ reply'.ans = "expired"]_vars

\* C7: when a reason is accepted for a pending post and the Bot API accepts
\* the handler's calls, then at the end of the handler the post is 'rejected'
\* by the sender with the supplied reason, the sender's awaiting-reason state
\* is gone, the review message carries the disabled 'rejected' keyboard and
\* the author has been sent the notice.
C7_AcceptedReasonCompletes ==
    [][\A m \in Moderators :
          (ReasonFinish(m, TRUE, TRUE, TRUE) /\ task[m].seen = "moderation")
              => LET pid == task[m].pid IN
                  /\ posts'[pid].status = "rejected"
                  /\ posts'[pid].moderator_id = m
                  /\ posts'[pid].reject_reason = task[m].reason
                  /\ fsm'[m] = NoState
                  /\ modMsg'[pid].kb = disabled_moderation_keyboard(pid, "rejected")
                  /\ notices'[pid].rejected = notices[pid].rejected + 1]_vars

\* C8: reject followed by cancel_rej of the same moderator on the same post
\* writes no row, leaves the moderator without awaiting-reason state and, for
\* a post still pending, leaves the review message exactly as
\* send_to_moderation rendered it (text and publish/reject keyboard).
C8_CancelRestoresReview ==
    [][\A m \in Moderators, pid \in PostIds :
          /\ CancelRej(m, pid)
                => /\ posts' = posts
                   /\ modMsg' = modMsg
                   /\ (fsm[m].post_id = pid => fsm'[m] = NoState)
          /\ ((\E ok \in BOOLEAN : CancelEdit(m, ok)) /\ task[m].pid = pid)
                => /\ posts' = posts
                   /\ fsm'[m] = NoState
                   /\ reply' = Reply(m, "cancel_rej", pid, "cancelled")
                   /\ (Pending(pid)
                          => modMsg'[pid] = send_to_moderation(pid, posts[pid].text))]_vars

C8_Witness ==
    \E m \in Moderators, pid \in PostIds :
        /\ reply = Reply(m, "cancel_rej", pid, "cancelled")
        /\ Pending(pid)
        /\ fsm[m] = NoState
        /\ modMsg[pid] = send_to_moderation(pid, posts[pid].text)

\* C9: a timer that wakes up (60 s or more after its reject) and still finds
\* its moderator awaiting a reason for its post destroys that state, writes
\* no row, and its render leaves the review message of a pending post as
\* send_to_moderation rendered it: the state cancel_rej leaves.
C9_TimeoutRollsBack ==
    [][\A i \in 1..Len(timers) :
          LET c == timers[i] IN
          /\ (TimerFire(i) /\ fsm[c.mod].state = "wait_reason"
                           /\ fsm[c.mod].post_id = c.post_id)
                => /\ c.age >= SleepSeconds
                   /\ fsm'[c.mod] = NoState
                   /\ posts' = posts
                   /\ Len(timers') = Len(timers) /\ timers'[i].pc = "edit"
          /\ (\E ok \in BOOLEAN : TimerEdit(i, ok))
                => /\ posts' = posts
                   /\ fsm' = fsm
                   /\ (Pending(c.post_id)
                          => modMsg'[c.post_id]
                                = send_to_moderation(c.post_id, posts[c.post_id].text))]_vars

C9_Witness ==
    \E m \in Moderators, pid \in PostIds :
        /\ calls = 1 /\ prompted = {pid}
        /\ timers = <<>>
        /\ \A k \in Moderators : fsm[k] = NoState /\ task[k] = Idle
        /\ Pending(pid)
        /\ modMsg[pid] = send_to_moderation(pid, posts[pid].text)

\* C10: every awaiting-reason state is eventually destroyed, also when the
\* moderator never answers.
C10_AwaitingEventuallyDestroyed ==
    \A m \in Moderators :
        (fsm[m].state = "wait_reason") ~> (fsm[m].state # "wait_reason")

\* C11: the timer and the reason race for one awaiting-reason state and only
\* one wins.  Accepting the reason destroys the state in the same step, so the
\* test of every sleeping timer of that moderator fails from then on; a timer
\* that wakes up while the accepted reason is in flight clears nothing, renders
\* nothing and ends; and a timer that does clear the state finds no accepted
\* reason in flight and leaves no state a later reason could be accepted for.
C11_TimerOrReasonNotBoth ==
    [][\A m \in Moderators :
          /\ ((\E r \in Reasons : ReasonReceive(m, r)) /\ task'[m].pc = "commit")
                => /\ fsm'[m] = NoState
                   /\ \A i \in 1..Len(timers') :
                        (timers'[i].mod = m /\ timers'[i].pc \in {"starting", "sleep"})
                            => ~(/\ fsm'[m].post_id = timers'[i].post_id
                                 /\ fsm'[m].state = "wait_reason")
          /\ \A i \in 1..Len(timers) :
                (TimerFire(i) /\ timers[i].mod = m)
                    => /\ (task[m].op = "reject_reason"
                              => /\ fsm' = fsm
                                 /\ modMsg' = modMsg
                                 /\ timers' = Remove(timers, i))
                       /\ (fsm'[m] # fsm[m]
                              => /\ fsm'[m].state # "wait_reason"
                                 /\ task[m].op # "reject_reason")
          /\ ((\E r \in Reasons : UnhandledMessage(m, r)) \/ fsm[m].state # "wait_reason")
                => \A pid \in PostIds :
                      (posts'[pid] # posts[pid] /\ posts'[pid].moderator_id = m
                                                /\ posts'[pid].status = "rejected")
                          => task[m].op = "reject_reason"]_vars

C11_Witness ==
    \E m \in Moderators, i \in 1..Len(timers) :
        /\ task[m].op = "reject_reason" /\ task[m].pc = "finish"
        /\ timers[i].mod = m /\ timers[i].post_id = task[m].pid
        /\ timers[i].pc = "sleep" /\ timers[i].age >= SleepSeconds
        /\ posts[task[m].pid].status = "rejected"
        /\ fsm[m] = NoState

\* C12: when the delivery to the channel raises, publish tells the moderator,
\* writes nothing to the row, sends no author notice and ends; a post that was
\* pending is still pending, so a later publish is not refused.
C12_DeliveryFailureLeavesPending ==
    [][\A m \in Moderators :
          (PublishDeliver(m, FALSE) /\ task[m].pid \in PostIds)
              => /\ reply' = Reply(m, "publish", task[m].pid, "delivery_failed")
                 /\ task'[m] = Idle
                 /\ UNCHANGED <<posts, delivered, notices, commits>>
                 /\ (Pending(task[m].pid)
                        => /\ posts'[task[m].pid].moderator_id = NoId
                           /\ posts'[task[m].pid].moderation_time = 0
                           /\ ~PublishRefuses(posts'[task[m].pid].status))]_vars

C12_Witness ==
    \E m \in Moderators, pid \in PostIds :
        /\ reply = Reply(m, "publish", pid, "delivery_failed")
        /\ Pending(pid)
        /\ posts[pid].moderator_id = NoId
        /\ delivered[pid] = 0 /\ notices[pid].published = 0
        /\ task[m] = Idle

\* C13: a post whose status is 'published' has been delivered to the channel
\* at least once, and the UPDATE of publish runs only after a delivery.
C13_PublishedWasDelivered ==
    [][/\ \A pid \in PostIds :
            posts'[pid].status = "published" => delivered'[pid] >= 1
       /\ \A m \in Moderators :
            PublishCommit(m) => delivered[task[m].pid] >= 1]_vars

C13_Witness ==
    \E pid \in PostIds :
        /\ posts[pid].status = "published"
        /\ delivered[pid] = 1
        /\ \E m \in Moderators : task[m].op = "publish" /\ task[m].pc = "finish"
                                                         /\ task[m].pid = pid

\* C14: when publish has completed, the review message of the post shows the
\* disabled 'published' keyboard and no publish/reject buttons.
C14_PublishedViewIsTerminal ==
    [][\A m \in Moderators :
          (\E a \in BOOLEAN, n \in BOOLEAN : PublishFinish(m, a, n))
              => /\ modMsg'[task[m].pid].kb
                        = disabled_moderation_keyboard(task[m].pid, "published")
                 /\ modMsg'[task[m].pid].kb \cap moderation_keyboard(task[m].pid) = {}]_vars

\* C15: a text sent to get_text_only or get_text_after_photo that contains,
\* case-insensitively as a substring, a keyword that is in
\* publication_blacklist at that moment inserts no row, and once the update
\* has reached the handler the answer is the blacklist rejection, also when
\* the text is invalid as well.
C15_BlacklistedTextNeverStored ==
    [][\A u \in Authors, msg \in Messages :
        /\ reply'.op \in {"get_text_only", "get_text_after_photo"}
        /\ msg.kind = "text"
        /\ \E keyword \in blacklist : Contains(lower(keyword), lower(msg.text))
        /\ \/ get_text_only(u, msg, MaxIntake)
           \/ get_text_after_photo(u, msg, MaxIntake)
        => /\ posts' = posts
           /\ Passes(u) => reply'.ans = "blacklisted"]_vars

\* A blacklist rejection was answered while the keyword is in the table
\* and no row exists.
C15_Witness ==
    /\ reply \in {Reply(u, op, NoId, "blacklisted") :
                    u \in Authors, op \in {"get_text_only", "get_text_after_photo"}}
    /\ blacklist # {}
    /\ posts = <<>>

\* The content policy: the text is not empty, has at least MinTextLen
\* characters once stripped, at most MaxTextLen characters, and a marker.
MeetsContentPolicy(msg) ==
    /\ msg.kind = "text"
    /\ Len(msg.text) > 0
    /\ Len(strip(msg.text)) >= MinTextLen
    /\ Len(msg.text) <= MaxTextLen
    /\ \E i \in 1..Len(msg.text) : msg.text[i] \in {"M", "W"}

ValidationErrors == {"empty", "short", "long", "no_marker"}

\* C16: every row inserted into posts has a text that meets the content
\* policy, and a submission that does not meet it inserts no row and is
\* answered with a validation error (unless it is answered as blacklisted,
\* which is checked first).
C16_OnlyValidTextStored ==
    [][\A u \in Authors, msg \in Messages :
        /\ reply'.op \in {"get_text_only", "get_text_after_photo"}
        /\ \/ get_text_only(u, msg, MaxIntake)
           \/ get_text_after_photo(u, msg, MaxIntake)
        => /\ posts' # posts => MeetsContentPolicy(msg)
           /\ Passes(u) /\ ~MeetsContentPolicy(msg)
              => /\ posts' = posts
                 /\ reply'.ans \in ValidationErrors \cup {"blacklisted"}]_vars

\* C17: while the user has a row in bans, no update of the user - a button
\* of any menu, a photo or a text, also in a flow that was started before
\* the ban - inserts a row with that user_id.
C17_BannedUserInsertsNothing ==
    [][\A u \in Authors :
        u \in bans =>
            \A i \in (1..Len(posts')) \ (1..Len(posts)) : posts'[i].user_id # u]_vars

\* A banned author whose flow is still in wait_text_only or
\* wait_text_after_photo has sent a message, and it was dropped.
C17_Witness ==
    \E u \in Authors :
        /\ u \in bans
        /\ ufsm[u].state \in {"wait_text_only", "wait_text_after_photo"}
        /\ reply \in {Reply(u, op, NoId, "banned") :
                        op \in {"get_text_only", "get_text_after_photo"}}

\* C18: a user who is not an admin never has more than DailyLimit rows of
\* one calendar day in posts, whatever buttons, of new or of older menus,
\* the user presses and whatever messages the user sends.
C18_AtMostFivePostsADay ==
    \A u \in Authors :
        Cardinality({i \in PostIds : posts[i].user_id = u}) <= DailyLimit

\* C19: a user who is not an admin inserts no row while a configured
\* required subscription is unmet for that user: a channel the user is not
\* a member of (never joined, left since, or added by an admin after the
\* user was verified) or a subscription of type 'bot'.
C19_UnmetSubscriptionDenies ==
    [][\A u \in Authors :
        (\E s \in Listed(subs) : s \in Bots \/ s \notin member[u]) =>
            \A i \in (1..Len(posts')) \ (1..Len(posts)) : posts'[i].user_id # u]_vars

\* C20: a submission that is answered as sent to moderation inserts exactly
\* one row and leaves the earlier rows as they were; the new row has status
\* 'moderation', no moderator_id, no moderation_time and no reject_reason,
\* and its id, the one handed to send_to_moderation, is greater than the
\* id of every earlier row.
C20_SubmissionInsertsOnePendingRow ==
    [][reply'.ans = "sent" =>
        /\ Len(posts') = Len(posts) + 1
        /\ SubSeq(posts', 1, Len(posts)) = posts
        /\ LET row == posts'[Len(posts')] IN
            /\ row.user_id = reply'.mod
            /\ row.status = "moderation"
            /\ row.moderator_id = NoId
            /\ row.moderation_time = 0
            /\ row.reject_reason = NoText
        /\ \A i \in PostIds : i < reply'.pid
        /\ modMsg'[Len(posts')] = send_to_moderation(reply'.pid, posts'[Len(posts')].text)]_vars

\* The second submission of an author has been answered as sent.
C20_Witness ==
    /\ reply.ans = "sent"
    /\ reply.pid = 2
    /\ Len(posts) = 2

\* C21: when the render of a new post to the moderators' topic or to the
\* admins' topic fails, the row exists with status 'moderation', the author
\* has been told that the post was sent to moderation and gets no error,
\* and the render to the admins' topic is attempted whether or not the
\* render to the moderators' topic succeeded.
C21_RenderFailureIsSwallowed ==
    [][\A u \in Authors, t \in PostTexts, ph \in Photos, mo \in BOOLEAN, ao \in BOOLEAN :
        Submit(u, t, ph, mo, ao) =>
            LET id == Len(posts) + 1 IN
            /\ Len(posts') = id
            /\ posts'[id].status = "moderation"
            /\ reply' = Reply(u, "get_text_only", id, "sent")
            /\ adminMsg'[id] = IF ao THEN "new" ELSE "none"]_vars

\* A post whose render to the moderators failed and whose render to the
\* admins succeeded has just been submitted.
C21_Witness ==
    \E i \in PostIds :
        /\ modMsg[i] = NoMsg
        /\ adminMsg[i] = "new"
        /\ posts[i].status = "moderation"
        /\ reply.ans = "sent" /\ reply.pid = i

\* C22: the part of publish and of reject_reason that follows the status
\* write - the edit of the admins' message, the edit of the review message
\* and the notice to the author - leaves the row as it was committed,
\* whichever of these calls fail.
C22_FailureAfterCommitKeepsDecision ==
    [][\A m \in Moderators, a \in BOOLEAN, e \in BOOLEAN, n \in BOOLEAN :
        (PublishFinish(m, a, n) \/ ReasonFinish(m, a, e, n)) =>
            /\ posts' = posts
            /\ posts[task[m].pid].status \in {"published", "rejected"}
            /\ posts[task[m].pid].moderator_id # NoId]_vars

\* publish has ended after its admin edit and its author notice failed,
\* and the row is the one it committed.
C22_Witness ==
    \E m \in Moderators, pid \in PostIds :
        /\ reply = Reply(m, "publish", pid, "published")
        /\ notices[pid].published = 0
        /\ adminMsg[pid] = "new"
        /\ posts[pid].status = "published"
        /\ posts[pid].moderator_id = m

\* An admin command or dialog step of the caller.
AdminOperation(caller) ==
    \/ \E u \in Authors : ban_command(caller, u) \/ unban_command(caller, u)
    \/ \E keyword \in TypedKeywords :
        \/ \E op \in {"blacklist_add_command", "process_blacklist_keyword"} :
                blacklist_add_command(caller, op, keyword)
        \/ \E op \in {"blacklist_remove_command", "process_remove_blacklist_keyword"} :
                blacklist_remove_command(caller, op, keyword)
    \/ \E s \in Channels \cup Bots : process_subscription_add(caller, s)
    \/ \E index \in 0..Cardinality(Channels \cup Bots) :
            process_remove_subscription(caller, index)
    \/ refresh_subscriptions(caller)

\* C23: bans, publication_blacklist and the required subscriptions change
\* only in a command or dialog step whose caller is in ADMINS; the same
\* commands and dialogs called by anybody else leave the three unchanged.
C23_OnlyAdminsChangeTables ==
    [][/\ \A caller \in Callers \ ADMINS :
            AdminOperation(caller) => UNCHANGED <<bans, blacklist, subs>>
       /\ <<bans, blacklist, subs>>' # <<bans, blacklist, subs>>
            => \E caller \in ADMINS : AdminOperation(caller)]_vars

\* An author who has a row in users has sent /ban for that row and is
\* not banned.
C23_Witness ==
    \E u \in Authors :
        /\ reply = Reply(u, "ban_command", NoId, "none")
        /\ users[u] # "none"
        /\ bans = {}

\* C24: in every reachable state a row has a reject_reason only if its
\* status is 'rejected', however publish and reject_reason on the same
\* post interleave.
C24_ReasonOnlyOnRejected ==
    \A pid \in PostIds :
        posts[pid].reject_reason # NoText => posts[pid].status = "rejected"

\* C25: the status write of publish and of reject_reason takes effect only
\* if the status of the row is 'moderation' at the moment of the write;
\* when the status has changed since the handler read it, the write
\* changes nothing.
C25_StatusWriteIsConditional ==
    [][\A m \in Moderators :
        /\ PublishCommit(m) \/ ReasonCommit(m)
        /\ task[m].pid \in PostIds
        /\ posts[task[m].pid].status # "moderation"
        => posts' = posts]_vars

\* C26: at any time at most one moderator is awaiting a reason for a post.
C26_OneAwaitingStatePerPost ==
    \A pid \in PostIds :
        Cardinality({m \in Moderators :
            fsm[m].state = "wait_reason" /\ fsm[m].post_id = pid}) <= 1

\* C27: a reject_timeout_handler destroys only the awaiting-reason state
\* of the reject call that created the timer, so the state it destroys is
\* at least SleepSeconds old, also after the moderator cancelled an
\* earlier reject of the same post and started a new one.
C27_TimerDestroysOwnStateOnly ==
    [][\A i \in 1..Len(timers) :
        TimerFire(i) /\ fsm'[timers[i].mod] # fsm[timers[i].mod]
        => fsm[timers[i].mod].age >= SleepSeconds]_vars

\* The moderator m holds an awaiting-reason state for the post pid.
HoldsAwaitingState(m, pid) ==
    fsm[m].state = "wait_reason" /\ fsm[m].post_id = pid

\* C28: cancel_rej pressed for a post for which the caller holds no
\* awaiting-reason state (no state, a state for another post, or only
\* another moderator's state) answers with the mismatch alert and changes
\* no post, no message, no FSM state and no timer.
C28_CancelWithoutStateChangesNothing ==
    [][\A m \in Moderators, pid \in PostIds :
        CancelRej(m, pid) /\ ~HoldsAwaitingState(m, pid)
        => /\ reply' = Reply(m, "cancel_rej", pid, "mismatch")
           /\ UNCHANGED <<postVars, fsm, timers, prompted, task, commits>>
           /\ UNCHANGED intakeVars]_vars

\* Reached: a moderator got the mismatch alert for a post for which another
\* moderator holds the awaiting-reason state, which is still there.
C28_Witness ==
    \E m \in Moderators, other \in Moderators, pid \in PostIds :
        /\ m # other
        /\ reply = Reply(m, "cancel_rej", pid, "mismatch")
        /\ HoldsAwaitingState(other, pid)
        /\ ~HoldsAwaitingState(m, pid)

\* C29: the publication_blacklist table never holds two keywords that are
\* equal after trimming and lower-casing, and adding a keyword whose
\* normalized form is in the table is answered as a duplicate and leaves
\* the table as it was, so adding twice is adding once.
C29_BlacklistKeywordsAreUnique ==
    /\ [](\A k1 \in blacklist, k2 \in blacklist :
            lower(strip(k1)) = lower(strip(k2)) => k1 = k2)
    /\ [][\A caller \in ADMINS, keyword \in TypedKeywords :
            \A op \in {"blacklist_add_command", "process_blacklist_keyword"} :
                /\ reply'.op = op
                /\ blacklist_add_command(caller, op, keyword)
                /\ lower(strip(keyword)) \in blacklist
                => /\ blacklist' = blacklist
                   /\ reply' = Reply(caller, op, NoId, "exists")]_vars

\* Reached: an admin was told that the keyword exists while the table holds
\* a keyword, and the table holds a second, different keyword as well.
C29_Witness ==
    /\ reply.ans = "exists"
    /\ reply.mod \in ADMINS
    /\ Cardinality(blacklist) = 2

\* The text of the post pid contains a keyword of the blacklist.
MatchesBlacklist(pid) == is_in_publication_blacklist(posts[pid].text)

\* C30: adding or removing a blacklist keyword changes no posts row, so a
\* pending post that matches a keyword added after it was stored stays
\* pending; publish and reject accept such a post and write its status as
\* for any other pending post.
C30_BlacklistLeavesPostsAlone ==
    [][/\ blacklist' # blacklist => posts' = posts
       /\ \A m \in Moderators, pid \in PostIds :
            Pending(pid) /\ MatchesBlacklist(pid)
            => /\ PublishCheck(m, pid, TRUE) => task'[m].pc = "deliver"
               /\ RejectCheck(m, pid, TRUE) => task'[m].pc = "set_state"
               /\ PublishCommit(m) /\ task[m].pid = pid
                  => posts'[pid].status = "published"
               /\ ReasonCommit(m) /\ task[m].pid = pid
                  => posts'[pid].status = "rejected"]_vars

\* Reached: a post whose text contains a keyword of the blacklist was
\* published and another one was rejected.
C30_Witness ==
    \E p1 \in PostIds, p2 \in PostIds :
        /\ MatchesBlacklist(p1) /\ posts[p1].status = "published"
        /\ MatchesBlacklist(p2) /\ posts[p2].status = "rejected"

\* A request of the author u that passes SubscriptionMiddleware and whose
\* handler writes no table itself: the offer button, or an admin command
\* typed by somebody who is not an admin.
CheckedRequest(u) ==
    \/ \E from \in {"main", "offer_btn"} : offer(u, from)
    \/ \E target \in Authors : ban_command(u, target) \/ unban_command(u, target)
    \/ \E keyword \in TypedKeywords :
        \/ blacklist_add_command(u, "blacklist_add_command", keyword)
        \/ blacklist_remove_command(u, "blacklist_remove_command", keyword)

\* C31: the eligibility check run for a request (the ban, subscription and
\* daily-limit checks of SubscriptionMiddleware and offer) is a pure check:
\* whatever its outcome, it leaves the users table (is_subscribed
\* included), the bans, the posts and the subscription list unchanged.
C31_EligibilityCheckIsPure ==
    [][\A u \in Authors :
        CheckedRequest(u) => UNCHANGED <<users, bans, posts, subs>>]_vars

\* C32: after every completed add, remove or refresh of a required
\* subscription by an admin, the list REQUIRED_SUBSCRIPTIONS that
\* check_subscription reads equals the rows of required_subscriptions,
\* element for element and in order, also when the table is empty at the
\* time of the refresh.
C32_ListEqualsTable ==
    saving = <<>> => subs = required_subscriptions

\* C33: in every reachable state a post whose status is 'rejected' has
\* never been delivered to the main channel, however publish by one
\* moderator and reject / reject_reason by another interleave.
C33_RejectedNeverDelivered ==
    \A pid \in PostIds :
        posts[pid].status = "rejected" => delivered[pid] = 0

\* C34: once a post is published or rejected, no rollback (cancel_rej,
\* reject_timeout_handler or the expired branch of reject_reason) edits
\* its review message back to the active publish / reject keyboard.
C34_DecidedMessageStaysDisabled ==
    [][\A pid \in PostIds :
        /\ posts[pid].status \in {"published", "rejected"}
        /\ modMsg'[pid] # modMsg[pid]
        => modMsg'[pid].kb # moderation_keyboard(pid)]_vars

\* C35: the author of a post is sent at most one decision notice in total:
\* one 'published' notice or one 'rejected' notice, never both and never
\* the same one twice, however publish and reject_reason of several
\* moderators interleave.
C35_AtMostOneDecisionNotice ==
    \A pid \in PostIds :
        notices[pid].published + notices[pid].rejected <= 1

\* C36: a moderator holds one awaiting-reason state at most.  A reject of
\* post B by a moderator who awaits a reason for post A puts B's state in
\* the place of A's without touching A's row or review message; the timer
\* armed for A changes nothing when it fires while the state is B's; and
\* a reason written afterwards rejects B and no other post.
C36_LaterRejectReplacesState ==
    [][/\ \A m \in Moderators :
            RejectSetState(m) /\ task[m].pid \in PostIds
            => /\ HoldsAwaitingState(m, task[m].pid)'
               /\ UNCHANGED <<posts, modMsg>>
       /\ \A i \in 1..Len(timers) :
            TimerFire(i) /\ fsm[timers[i].mod].post_id # timers[i].post_id
            => UNCHANGED <<fsm, posts, modMsg>> /\ timers' = Remove(timers, i)
       /\ \A m \in Moderators, r \in Reasons :
            ReasonReceive(m, r) /\ fsm[m].post_id # NoId
            => task'[m].pid = fsm[m].post_id
       /\ \A m \in Moderators :
            ReasonCommit(m)
            => \A pid \in PostIds \ {task[m].pid} : posts'[pid] = posts[pid]]_vars

\* Reached: a moderator who was asked for a reason for post A holds the
\* state of another post B, A is pending with its active keyboard, and the
\* timer armed for A has slept its 60 s.
C36_Witness ==
    \E m \in Moderators, A \in PostIds, B \in PostIds, i \in 1..Len(timers) :
        /\ A # B
        /\ HoldsAwaitingState(m, B)
        /\ timers[i].mod = m /\ timers[i].post_id = A
        /\ timers[i].pc = "sleep" /\ timers[i].age >= SleepSeconds
        /\ Pending(A)
        /\ modMsg[A].kb = moderation_keyboard(A)

\* C37: in every reachable state the moderator_id and the moderation_time
\* of a row are set if and only if its status is 'published' or
\* 'rejected'; a pending row has both unset.
C37_ModeratorSetIffDecided ==
    \A pid \in PostIds :
        IF posts[pid].status \in {"published", "rejected"}
        THEN posts[pid].moderator_id # NoId /\ posts[pid].moderation_time # 0
        ELSE /\ posts[pid].status = "moderation"
             /\ posts[pid].moderator_id = NoId /\ posts[pid].moderation_time = 0

\* Reached: one post is published and another one is rejected.
C37_Witness ==
    \E p1 \in PostIds, p2 \in PostIds :
        /\ posts[p1].status = "published" /\ posts[p1].moderator_id \in Moderators
        /\ posts[p2].status = "rejected" /\ posts[p2].moderator_id \in Moderators

\* A step of reject, cancel_rej or reject_timeout_handler.
RejectFamilyStep ==
    \/ \E m \in Moderators, pid \in PostIds, c \in BOOLEAN : RejectCheck(m, pid, c)
    \/ \E m \in Moderators : RejectSetState(m)
    \/ \E m \in Moderators, o \in {"ok", "send_failed", "answer_failed"} : RejectPrompt(m, o)
    \/ \E m \in Moderators, pid \in PostIds : CancelRej(m, pid)
    \/ \E m \in Moderators, ok \in BOOLEAN : CancelEdit(m, ok)
    \/ \E i \in 1..Len(timers) : TimerFire(i)
    \/ \E i \in 1..Len(timers), ok \in BOOLEAN : TimerEdit(i, ok)

\* C38: reject, cancel_rej and reject_timeout_handler never write the posts
\* table; the status, moderator_id, moderation_time and reject_reason of a
\* row change only in the UPDATE of publish or of an accepted
\* reject_reason for that row.
C38_RejectFamilyNeverWritesPosts ==
    [][/\ RejectFamilyStep => posts' = posts
       /\ \A pid \in PostIds :
            posts'[pid] # posts[pid]
            => \E m \in Moderators :
                /\ task[m].pid = pid
                /\ PublishCommit(m) \/ ReasonCommit(m)]_vars

\* Reached: the timer of a reject has rolled the review message back, the
\* moderator's state is gone, and the row is as it was inserted.
C38_Witness ==
    \E m \in Moderators, pid \in PostIds :
        /\ reply = Reply(m, "reject_timeout_handler", pid, "none")
        /\ fsm[m] = NoState
        /\ pid \in prompted
        /\ posts[pid] = NewPost(posts[pid].user_id, posts[pid].text, posts[pid].photo)

\* The handler written for a callback value: the one whose filter names
\* the whole value, or else the one registered for the longest prefix of it.
WrittenFor(data) ==
    IF \E i \in 1..Len(CallbackHandlers) :
            CallbackHandlers[i].kind = "eq" /\ CallbackHandlers[i].data = data
    THEN CallbackHandlers[CHOOSE i \in 1..Len(CallbackHandlers) :
            CallbackHandlers[i].kind = "eq" /\ CallbackHandlers[i].data = data].name
    ELSE IF \E i \in 1..Len(CallbackHandlers) : Matches(CallbackHandlers[i], data)
    THEN CallbackHandlers[CHOOSE i \in 1..Len(CallbackHandlers) :
            /\ Matches(CallbackHandlers[i], data)
            /\ \A j \in 1..Len(CallbackHandlers) :
                    Matches(CallbackHandlers[j], data)
                    => Len(CallbackHandlers[j].data) <= Len(CallbackHandlers[i].data)].name
    ELSE NoHandler

\* C39: every callback value that a keyboard emits is routed to the
\* handler written for it; in particular 'pub_blacklist' reaches
\* show_pub_blacklist and not confirm_pub, and 'no_photo' reaches no_photo
\* and not cancel_pub.
C39_CallbackReachesItsHandler ==
    [][\A caller \in Callers \cup Moderators, data \in Emitted :
        Dispatch(caller, data) => reply'.op = WrittenFor(data)]_vars

====
